---------------------------- MODULE Spec2Model ----------------------------
(***************************************************************************)
(* Query subsystem of the SiYuan task plugin: QueryParser, QueryOptimizer, *)
(* QueryEngine (compile, execute, cache) and the plugin's query path.      *)
(* Strings are TLA+ strings; a character is a string of length one.        *)
(***************************************************************************)
EXTENDS Integers, Sequences, FiniteSets, TLC

(***************************************************************************)
(* String primitives (JavaScript String methods used by the sources).      *)
(***************************************************************************)
Ch(s, i) == SubSeq(s, i, i)

IsWs(c) == c \in {" ", "\t", "\r", "\n"}

IsDigit(c) == c \in {"0", "1", "2", "3", "4", "5", "6", "7", "8", "9"}

DigitVal(c) ==
    CASE c = "0" -> 0 [] c = "1" -> 1 [] c = "2" -> 2 [] c = "3" -> 3
      [] c = "4" -> 4 [] c = "5" -> 5 [] c = "6" -> 6 [] c = "7" -> 7
      [] c = "8" -> 8 [] c = "9" -> 9

SetMin(S) == CHOOSE x \in S : \A y \in S : x <= y

SetMax(S) == CHOOSE x \in S : \A y \in S : x >= y

UpperAlphabet == "ABCDEFGHIJKLMNOPQRSTUVWXYZ"

LowerAlphabet == "abcdefghijklmnopqrstuvwxyz"

LowerChar(c) ==
    LET hits == {i \in 1..26 : Ch(UpperAlphabet, i) = c}
    IN  IF hits = {} THEN c ELSE Ch(LowerAlphabet, SetMin(hits))

UpperChar(c) ==
    LET hits == {i \in 1..26 : Ch(LowerAlphabet, i) = c}
    IN  IF hits = {} THEN c ELSE Ch(UpperAlphabet, SetMin(hits))

\* Character-wise maps are computed by halves to keep the recursion shallow.
RECURSIVE ToLowerCase(_)
ToLowerCase(s) ==
    IF Len(s) = 0 THEN ""
    ELSE IF Len(s) = 1 THEN LowerChar(s)
    ELSE ToLowerCase(SubSeq(s, 1, Len(s) \div 2))
         \o ToLowerCase(SubSeq(s, Len(s) \div 2 + 1, Len(s)))

RECURSIVE ToUpperCase(_)
ToUpperCase(s) ==
    IF Len(s) = 0 THEN ""
    ELSE IF Len(s) = 1 THEN UpperChar(s)
    ELSE ToUpperCase(SubSeq(s, 1, Len(s) \div 2))
         \o ToUpperCase(SubSeq(s, Len(s) \div 2 + 1, Len(s)))

Trim(s) ==
    LET keep == {i \in 1..Len(s) : ~IsWs(Ch(s, i))}
    IN  IF keep = {} THEN "" ELSE SubSeq(s, SetMin(keep), SetMax(keep))

StartsWith(s, p) == Len(s) >= Len(p) /\ SubSeq(s, 1, Len(p)) = p

EndsWith(s, p) == Len(s) >= Len(p) /\ SubSeq(s, Len(s) - Len(p) + 1, Len(s)) = p

Includes(s, p) == \E i \in 1..(Len(s) - Len(p) + 1) : SubSeq(s, i, i + Len(p) - 1) = p

\* String.prototype.split(sep) for a literal, non-empty separator.  For a
\* one-character separator every occurrence is a cut, so the string is cut
\* at the occurrence nearest its middle first, which keeps the recursion
\* shallow on long lists.
Distance(a, b) == IF a >= b THEN a - b ELSE b - a

NearestTo(positions, mid) ==
    SetMin({i \in positions : \A j \in positions : Distance(i, mid) <= Distance(j, mid)})

RECURSIVE SplitChar(_, _)
SplitCharAt(s, sep, at) ==
    IF at = {} THEN <<s>>
    ELSE SplitChar(SubSeq(s, 1, NearestTo(at, Len(s) \div 2) - 1), sep)
         \o SplitChar(SubSeq(s, NearestTo(at, Len(s) \div 2) + 1, Len(s)), sep)

SplitChar(s, sep) == SplitCharAt(s, sep, {i \in 1..Len(s) : Ch(s, i) = sep})

RECURSIVE SplitSeq(_, _)
SplitSeqAt(s, sep, at) ==
    IF at = {} THEN <<s>>
    ELSE <<SubSeq(s, 1, SetMin(at) - 1)>>
         \o SplitSeq(SubSeq(s, SetMin(at) + Len(sep), Len(s)), sep)

SplitSeq(s, sep) ==
    SplitSeqAt(s, sep, {i \in 1..(Len(s) - Len(sep) + 1) : SubSeq(s, i, i + Len(sep) - 1) = sep})

SplitOn(s, sep) == IF Len(sep) = 1 THEN SplitChar(s, sep) ELSE SplitSeq(s, sep)

\* The positions at or after p where op occurs in s (ci is the i flag),
\* with white space on both sides when minWs = 1.
MatchStarts(s, p, op, minWs, ci) ==
    {j \in p..(Len(s) - Len(op) + 1) :
        /\ (IF ci THEN ToLowerCase(SubSeq(s, j, j + Len(op) - 1))
                  ELSE SubSeq(s, j, j + Len(op) - 1)) = op
        /\ \/ minWs = 0
           \/ /\ j - 1 >= p
              /\ IsWs(Ch(s, j - 1))
              /\ j + Len(op) <= Len(s)
              /\ IsWs(Ch(s, j + Len(op)))}

\* The match around an occurrence at j0 of an operator of length n: the
\* greedy \s runs on both sides are maximal.
MatchAround(s, p, n, j0) ==
    [found |-> TRUE,
     from |-> SetMin({q \in p..j0 : \A k \in q..(j0 - 1) : IsWs(Ch(s, k))}),
     to |-> SetMax({e \in (j0 + n)..(Len(s) + 1) :
                       \A k \in (j0 + n)..(e - 1) : IsWs(Ch(s, k))})]

MatchOf(s, p, n, js) ==
    IF js = {} THEN [found |-> FALSE, from |-> 0, to |-> 0]
    ELSE MatchAround(s, p, n, SetMin(js))

\* The leftmost match, at or after position p, of the regular expression
\* \s*op\s* (minWs = 0) or \s+op\s+ (minWs = 1).  op has no leading or
\* trailing white space.
FirstMatch(s, p, op, minWs, ci) == MatchOf(s, p, Len(op), MatchStarts(s, p, op, minWs, ci))

\* String.prototype.split(regex) for the two regex shapes above.
RECURSIVE SplitFrom(_, _, _, _, _)
SplitAtMatch(s, p, op, minWs, ci, m) ==
    IF m.found
    THEN <<SubSeq(s, p, m.from - 1)>> \o SplitFrom(s, m.to, op, minWs, ci)
    ELSE <<SubSeq(s, p, Len(s))>>

SplitFrom(s, p, op, minWs, ci) ==
    SplitAtMatch(s, p, op, minWs, ci, FirstMatch(s, p, op, minWs, ci))

RegexSplit(s, op, minWs, ci) == SplitFrom(s, 1, op, minWs, ci)

\* split(/\s+/)
RECURSIVE SplitWs(_)
SplitWs(s) ==
    LET ws == {i \in 1..Len(s) : IsWs(Ch(s, i))}
    IN  IF ws = {} THEN <<s>>
        ELSE LET i == SetMin(ws)
                 e == SetMax({k \in (i + 1)..(Len(s) + 1) :
                                  \A m \in i..(k - 1) : IsWs(Ch(s, m))})
             IN  <<SubSeq(s, 1, i - 1)>> \o SplitWs(SubSeq(s, e, Len(s)))

\* parseInt(s, 10): optional white space, optional sign, leading digits.
RECURSIVE DigitsValue(_, _)
DigitsValue(s, acc) ==
    IF s = "" \/ ~IsDigit(Ch(s, 1)) THEN acc
    ELSE DigitsValue(Tail(s), acc * 10 + DigitVal(Ch(s, 1)))

IntOfDigits(neg, body) ==
    IF body = "" \/ ~IsDigit(Ch(body, 1)) THEN [nan |-> TRUE, n |-> 0]
    ELSE [nan |-> FALSE, n |-> IF neg THEN 0 - DigitsValue(body, 0) ELSE DigitsValue(body, 0)]

IntOfTrimmed(s) ==
    IntOfDigits(s # "" /\ Ch(s, 1) = "-",
                IF s # "" /\ Ch(s, 1) \in {"-", "+"} THEN Tail(s) ELSE s)

ParseInt(str) == IntOfTrimmed(Trim(str))

(***************************************************************************)
(* QueryParser (src/siyuan/query/QueryParser.ts).                          *)
(***************************************************************************)
\* enum QueryOperator, in declaration order (the order Object.entries yields).
QueryOperator ==
    <<"=", "!=", ">", ">=", "<", "<=", "includes", "not includes", "in", "not in">>

EQUALS == "="

NOT_EQUALS == "!="

GREATER_THAN == ">"

GREATER_THAN_OR_EQUAL == ">="

LESS_THAN == "<"

LESS_THAN_OR_EQUAL == "<="

CONTAINS == "includes"

NOT_CONTAINS == "not includes"

IN_OP == "in"

NOT_IN == "not in"

\* enum BooleanLogic; Undefined is the absent marker (logic?: BooleanLogic).
LogicAnd == "and"

LogicOr == "or"

LogicNot == "not"

Undefined == "undefined"

\* enum SortDirection
ASC == "asc"

DESC == "desc"

\* A filter value is string | string[]: isList tells which, items holds the
\* string (one item) or the array's elements.
Scalar(v) == [isList |-> FALSE, items |-> <<v>>]

ListOf(vs) == [isList |-> TRUE, items |-> vs]

\* replace(/^['"]|['"]$/g, ''): one quote off each end.
StripLeadingQuote(v) == IF v # "" /\ Ch(v, 1) \in {"'", "\""} THEN Tail(v) ELSE v

StripTrailingQuote(v) ==
    IF v # "" /\ Ch(v, Len(v)) \in {"'", "\""} THEN SubSeq(v, 1, Len(v) - 1) ELSE v

TrimAll(parts) == [i \in 1..Len(parts) |-> Trim(parts[i])]

ValueOf(cleaned) ==
    IF Includes(cleaned, ",") THEN ListOf(TrimAll(SplitOn(cleaned, ","))) ELSE Scalar(cleaned)

parseValue(valueStr) == ValueOf(StripTrailingQuote(StripLeadingQuote(valueStr)))

NoFilter == [ok |-> FALSE]

\* filterStr.split(regex) for one operator: \s+op\s+ with the i flag for a
\* multi-word operator, \s*op\s* otherwise.
SplitByOperator(filterStr, opValue) ==
    IF Includes(opValue, " ") THEN RegexSplit(filterStr, opValue, 1, TRUE)
    ELSE RegexSplit(filterStr, opValue, 0, FALSE)

\* One iteration of parseFilter's loop for operator number k, then the rest.
RECURSIVE parseFilterFrom(_, _)
FilterOfParts(filterStr, k, parts) ==
    IF Len(parts) = 2
    THEN [ok |-> TRUE,
          field |-> Trim(parts[1]),
          operator |-> QueryOperator[k],
          value |-> parseValue(Trim(parts[2])),
          logic |-> Undefined]
    ELSE parseFilterFrom(filterStr, k + 1)

parseFilterFrom(filterStr, k) ==
    IF k > Len(QueryOperator) THEN NoFilter
    ELSE FilterOfParts(filterStr, k, SplitByOperator(filterStr, QueryOperator[k]))

parseFilter(filterStr) == parseFilterFrom(filterStr, 1)

SortOfParts(parts) ==
    [field |-> Trim(parts[1]),
     direction |-> IF Len(parts) > 1 /\ ToLowerCase(parts[2]) = "desc" THEN DESC ELSE ASC]

parseSort(sortStr) == SortOfParts(SplitWs(sortStr))

\* const aliases in normalizeFieldName
FieldAliases ==
    <<<<"due", "due_date">>, <<"scheduled", "scheduled_date">>,
      <<"start", "start_date">>, <<"done", "done_date">>,
      <<"cancelled", "cancelled_date">>, <<"tag", "tags">>,
      <<"depends", "depends_on">>>>

\* aliases is an object literal, so aliases[key] also finds the properties
\* it inherits from Object.prototype.  The key is in lower case, and the
\* inherited properties with a lower-case name are constructor (the
\* function Object) and __proto__ (the object Object.prototype): both are
\* truthy, and neither is a string.
ObjectConstructor == "[Function: Object]"

ObjectPrototype == "[Object: null prototype] {}"

InheritedProperties ==
    <<<<"constructor", ObjectConstructor>>, <<"__proto__", ObjectPrototype>>>>

\* A call of a string method on a value that is not a string throws.
TypeError == "TypeError"

IsString(v) == v \notin {ObjectConstructor, ObjectPrototype, TypeError}

\* aliases[key] || field
AliasOrField(properties, key, field) ==
    LET hits == {i \in 1..Len(properties) : properties[i][1] = key}
    IN  IF hits = {} THEN field ELSE properties[SetMin(hits)][2]

normalizeFieldName(field) ==
    IF IsString(field)
    THEN AliasOrField(FieldAliases \o InheritedProperties, ToLowerCase(field), field)
    ELSE TypeError

\* A filter as it is stored in ParsedQuery.filters.
AsFilter(f, logic) ==
    [field |-> f.field, operator |-> f.operator, value |-> f.value, logic |-> logic]

\* replace(/^where\s+/i, '')
StripWhere(part) ==
    IF Len(part) >= 6 /\ ToLowerCase(SubSeq(part, 1, 5)) = "where" /\ IsWs(Ch(part, 6))
    THEN LET rest == {i \in 6..Len(part) : ~IsWs(Ch(part, i))}
         IN  IF rest = {} THEN "" ELSE SubSeq(part, SetMin(rest), Len(part))
    ELSE part

\* filters.push of a parsed filter, if parseFilter returned one.
PushFilter(filter, logic, rest) ==
    IF filter.ok THEN <<AsFilter(filter, logic)>> \o rest ELSE rest

\* The filters of a line split on an inline connective (the loops at
\* QueryParser.ts 125-132 and 139-146): part i > 1 gets the connective.
RECURSIVE InlineFilters(_, _, _, _)
InlineFilters(parts, i, connective, currentLogic) ==
    IF i > Len(parts) THEN <<>>
    ELSE PushFilter(parseFilter(Trim(StripWhere(parts[i]))),
                    IF i > 1 THEN connective ELSE currentLogic,
                    InlineFilters(parts, i + 1, connective, currentLogic))

\* The parser's running state: the query under construction and currentLogic.
EmptyQuery ==
    [filters |-> <<>>, sorts |-> <<>>, hasLimit |-> FALSE, limit |-> 0,
     currentLogic |-> Undefined]

\* The where branch: push the filter with the pending connective.
WithFilter(q, filter) ==
    IF filter.ok
    THEN [q EXCEPT !.filters = Append(@, AsFilter(filter, q.currentLogic)),
                   !.currentLogic = Undefined]
    ELSE q

\* The inline and / or branches.
WithInline(q, filters) == [q EXCEPT !.filters = @ \o filters, !.currentLogic = Undefined]

\* The limit branch: parseInt, kept unless NaN.
WithLimit(q, limit) ==
    IF ~limit.nan THEN [q EXCEPT !.hasLimit = TRUE, !.limit = limit.n] ELSE q

\* The body of the for-loop of parse for one (trimmed, non-empty) line,
\* with lower = line.toLowerCase().
parseLower(q, line, lower) ==
    IF lower = "tasks" THEN q
    ELSE IF StartsWith(lower, "where ")
    THEN WithFilter(q, parseFilter(Trim(SubSeq(line, 7, Len(line)))))
    ELSE IF lower = "and" THEN [q EXCEPT !.currentLogic = LogicAnd]
    ELSE IF lower = "or" THEN [q EXCEPT !.currentLogic = LogicOr]
    ELSE IF lower = "not" THEN [q EXCEPT !.currentLogic = LogicNot]
    ELSE IF Includes(lower, " and ") \/ Includes(lower, " or ")
    THEN WithInline(q, InlineFilters(
             RegexSplit(line, IF Includes(lower, " and ") THEN "and" ELSE "or", 1, TRUE),
             1, IF Includes(lower, " and ") THEN LogicAnd ELSE LogicOr, q.currentLogic))
    ELSE IF StartsWith(lower, "sort by ")
    THEN [q EXCEPT !.sorts = Append(@, parseSort(Trim(SubSeq(line, 9, Len(line)))))]
    ELSE IF StartsWith(lower, "limit ")
    THEN WithLimit(q, ParseInt(Trim(SubSeq(line, 7, Len(line)))))
    ELSE q

parseLine(q, line) == parseLower(q, line, ToLowerCase(line))

RECURSIVE parseLines(_, _, _)
parseTrimmed(q, lines, i, line) ==
    IF line = "" \/ StartsWith(line, "#")
    THEN parseLines(q, lines, i + 1)
    ELSE parseLines(parseLine(q, line), lines, i + 1)

parseLines(q, lines, i) ==
    IF i > Len(lines) THEN q ELSE parseTrimmed(q, lines, i, Trim(lines[i]))

\* QueryParser.parse: the ParsedQuery {filters, sorts, limit?}.
ParsedQuery(q) ==
    [filters |-> q.filters, sorts |-> q.sorts, hasLimit |-> q.hasLimit, limit |-> q.limit]

parse(queryString) == ParsedQuery(parseLines(EmptyQuery, SplitOn(queryString, "\n"), 1))

\* The evaluation date of new Date() in parseQueryDate, as [y, m, d].
Today == [y |-> 2026, m |-> 1, d |-> 25]

\* Days since 1970-01-01 of a proleptic Gregorian date, and back: the
\* arithmetic behind Date.setDate / setMonth / setFullYear, which normalise
\* an out-of-range day or month by carrying into the next unit.
DaysOfEra(era, yoe, doy) ==
    era * 146097 + yoe * 365 + yoe \div 4 - yoe \div 100 + doy - 719468

DaysOfShiftedYear(yy, m, d) ==
    DaysOfEra(yy \div 400, yy % 400,
              (153 * (IF m > 2 THEN m - 3 ELSE m + 9) + 2) \div 5 + d - 1)

DaysFromCivil(y, m, d) == DaysOfShiftedYear(IF m <= 2 THEN y - 1 ELSE y, m, d)

\* The months that begin on or before day z.
MonthsUpTo(z) ==
    {c \in [y : (1970 + z \div 366)..(1970 + z \div 365), m : 1..12] :
        DaysFromCivil(c.y, c.m, 1) <= z}

LastMonth(months) ==
    CHOOSE c \in months :
        \A o \in months : DaysFromCivil(o.y, o.m, 1) <= DaysFromCivil(c.y, c.m, 1)

DateInMonth(z, c) == [y |-> c.y, m |-> c.m, d |-> z - DaysFromCivil(c.y, c.m, 1) + 1]

CivilFromDays(z) == DateInMonth(z, LastMonth(MonthsUpTo(z)))

\* new Date(y, monthIndex, d) with monthIndex and d of any size.
MakeDate(y, monthIndex, d) ==
    CivilFromDays(DaysFromCivil(y + (monthIndex \div 12), (monthIndex % 12) + 1, 1) + d - 1)

RECURSIVE IntToStr(_)
IntToStr(n) ==
    IF n < 10 THEN Ch("0123456789", n + 1)
    ELSE IntToStr(n \div 10) \o Ch("0123456789", (n % 10) + 1)

\* String(n).padStart(2, '0')
Pad2(n) == IF n < 10 THEN "0" \o IntToStr(n) ELSE IntToStr(n)

formatDate(date) == IntToStr(date.y) \o "-" \o Pad2(date.m) \o "-" \o Pad2(date.d)

SkipWs(s) ==
    LET rest == {i \in 1..Len(s) : ~IsWs(Ch(s, i))}
    IN  IF rest = {} THEN "" ELSE SubSeq(s, SetMin(rest), Len(s))

LeadingDigits(s) ==
    LET stop == {i \in 1..Len(s) : ~IsDigit(Ch(s, i))}
    IN  IF stop = {} THEN s ELSE SubSeq(s, 1, SetMin(stop) - 1)

NoMatch == [matched |-> FALSE]

\* The match of /^(today|tomorrow|yesterday)\s*([+\-])\s*(\d+)([dwmy])$/i,
\* group by group.
MatchUnit(base, sign, digits, unit) ==
    IF digits # "" /\ unit \in {"d", "w", "m", "y"}
    THEN [matched |-> TRUE, base |-> base, operator |-> sign,
          amount |-> DigitsValue(digits, 0), unit |-> unit]
    ELSE NoMatch

MatchDigits(base, sign, rest, digits) ==
    MatchUnit(base, sign, digits, SubSeq(rest, Len(digits) + 1, Len(rest)))

MatchAmount(base, sign, rest) == MatchDigits(base, sign, rest, LeadingDigits(rest))

MatchSign(base, rest) ==
    IF rest # "" /\ Ch(rest, 1) \in {"+", "-"}
    THEN MatchAmount(base, Ch(rest, 1), SkipWs(Tail(rest)))
    ELSE NoMatch

MatchAfter(lower, base) == MatchSign(base, SkipWs(SubSeq(lower, Len(base) + 1, Len(lower))))

MatchBase(lower, bases) ==
    IF bases = {} THEN NoMatch ELSE MatchAfter(lower, CHOOSE b \in bases : TRUE)

RelativeMatch(dateStr) ==
    MatchBase(ToLowerCase(dateStr),
              {b \in {"today", "tomorrow", "yesterday"} : StartsWith(ToLowerCase(dateStr), b)})

\* today, tomorrow (setDate(getDate() + 1)) or yesterday.
BaseDate(base) ==
    MakeDate(Today.y, Today.m - 1,
             Today.d + (CASE base = "tomorrow" -> 1 [] base = "yesterday" -> 0 - 1 [] OTHER -> 0))

\* setDate / setMonth / setFullYear of the base date by the offset.
Shifted(baseDate, unit, offset) ==
    MakeDate(baseDate.y + (IF unit = "y" THEN offset ELSE 0),
             baseDate.m - 1 + (IF unit = "m" THEN offset ELSE 0),
             baseDate.d + (CASE unit = "d" -> offset [] unit = "w" -> offset * 7 [] OTHER -> 0))

DateOfMatch(dateStr, rm, lower) ==
    IF rm.matched
    THEN formatDate(Shifted(BaseDate(rm.base), rm.unit,
                            rm.amount * (IF rm.operator = "-" THEN 0 - 1 ELSE 1)))
    ELSE IF lower \in {"today", "tomorrow", "yesterday"} THEN formatDate(BaseDate(lower))
    ELSE dateStr

parseQueryDate(dateStr) == DateOfMatch(dateStr, RelativeMatch(dateStr), ToLowerCase(dateStr))

(***************************************************************************)
(* QueryOptimizer (the TypeScript part of src/siyuan/ui/TaskList.svelte).  *)
(***************************************************************************)
\* DEFAULT_OPTIMIZATION_SETTINGS
DefaultMaxExecutionTime == 5000

DefaultMaxResults == 1000

DefaultOptimizerCacheTimeout == 60000

\* The length above which validateQuery rejects an array value.
MaxFilterValues == 100

\* JavaScript truthiness of query.limit (undefined and 0 are falsy).
LimitTruthy(query) == query.hasLimit /\ query.limit # 0

optimize(query, maxResults) ==
    IF ~LimitTruthy(query) \/ query.limit > maxResults
    THEN [query EXCEPT !.hasLimit = TRUE, !.limit = maxResults]
    ELSE query

ErrNoLimit == "Query without filters must have a limit to prevent performance issues"

ErrTooManyValues == "Filter with more than 100 values may cause performance issues"

\* validateQuery with the list check off by one (>= for >).
validateQueryInclusive(query) ==
    IF Len(query.filters) = 0 /\ ~LimitTruthy(query)
    THEN [valid |-> FALSE, error |-> ErrNoLimit]
    ELSE IF \E i \in 1..Len(query.filters) :
                /\ query.filters[i].value.isList
                /\ Len(query.filters[i].value.items) >= MaxFilterValues
    THEN [valid |-> FALSE, error |-> ErrTooManyValues]
    ELSE [valid |-> TRUE, error |-> Undefined]

validateQuery(query) ==
    IF Len(query.filters) = 0 /\ ~LimitTruthy(query)
    THEN [valid |-> FALSE, error |-> ErrNoLimit]
    ELSE IF \E i \in 1..Len(query.filters) :
                /\ query.filters[i].value.isList
                /\ Len(query.filters[i].value.items) > MaxFilterValues
    THEN [valid |-> FALSE, error |-> ErrTooManyValues]
    ELSE [valid |-> TRUE, error |-> Undefined]

(***************************************************************************)
(* TaskData and block attributes (types/TaskData.ts).                      *)
(***************************************************************************)
\* The attribute names taskDataToBlockAttributes writes for the fields the
\* model carries: task_id, status, status_symbol, due_date, priority, tags,
\* description.  An absent optional field is Undefined and is not written.
AttrNames ==
    <<"custom-task-id", "custom-task-status", "custom-task-symbol",
      "custom-task-due", "custom-task-priority", "custom-task-tags",
      "custom-task-description">>

RECURSIVE JoinWith(_, _)
JoinWith(strs, sep) ==
    IF Len(strs) = 0 THEN ""
    ELSE IF Len(strs) = 1 THEN strs[1]
    ELSE strs[1] \o sep \o JoinWith(Tail(strs), sep)

\* JSON.stringify / JSON.parse of an array of plain strings.
JsonStringify(strs) ==
    "[" \o JoinWith([i \in 1..Len(strs) |-> "\"" \o strs[i] \o "\""], ",") \o "]"

JsonParse(text) ==
    IF text = "[]" THEN <<>>
    ELSE SplitOn(SubSeq(text, 3, Len(text) - 2), "\",\"")

taskDataToBlockAttributes(task) ==
    [a \in {AttrNames[i] : i \in 1..Len(AttrNames)} |->
        CASE a = "custom-task-id" -> task.task_id
          [] a = "custom-task-status" -> task.status
          [] a = "custom-task-symbol" -> task.status_symbol
          [] a = "custom-task-due" -> task.due_date
          [] a = "custom-task-priority" -> IntToStr(task.priority)
          [] a = "custom-task-tags" -> JsonStringify(task.tags)
          [] a = "custom-task-description" -> task.description]

NullTask == [isNull |-> TRUE]

Falsy(v) == v = Undefined \/ v = ""

blockAttributesToTaskData(blockId, attrs) ==
    IF Falsy(attrs["custom-task-id"]) \/ Falsy(attrs["custom-task-description"])
    THEN NullTask
    ELSE [isNull |-> FALSE,
          task_id |-> attrs["custom-task-id"],
          status |-> IF Falsy(attrs["custom-task-status"]) THEN "TODO"
                     ELSE attrs["custom-task-status"],
          status_symbol |-> IF Falsy(attrs["custom-task-symbol"]) THEN "[ ]"
                            ELSE attrs["custom-task-symbol"],
          due_date |-> attrs["custom-task-due"],
          priority |-> ParseInt(IF Falsy(attrs["custom-task-priority"]) THEN "6"
                                ELSE attrs["custom-task-priority"]).n,
          tags |-> IF Falsy(attrs["custom-task-tags"]) THEN <<>>
                   ELSE JsonParse(attrs["custom-task-tags"]),
          description |-> attrs["custom-task-description"],
          source_block_id |-> blockId]

(***************************************************************************)
(* The record store behind SiYuanAPI.querySQL and getBlockAttrs: a table   *)
(* of blocks, each with its id, created and content columns and its        *)
(* attributes, which the ial column renders as name="value" pairs.         *)
(***************************************************************************)
\* replace(/c/g, by) for a single character c.
RECURSIVE ReplaceAll(_, _, _)
ReplaceAll(s, c, by) ==
    IF Len(s) = 0 THEN ""
    ELSE IF Len(s) = 1 THEN (IF s = c THEN by ELSE s)
    ELSE ReplaceAll(SubSeq(s, 1, Len(s) \div 2), c, by)
         \o ReplaceAll(SubSeq(s, Len(s) \div 2 + 1, Len(s)), c, by)

Ial(block) ==
    LET shown == SelectSeq(AttrNames, LAMBDA a : block.attrs[a] # Undefined)
        pair(a) == a \o "=\"" \o ReplaceAll(block.attrs[a], "\"", "&quot;") \o "\""
    IN  "{: id=\"" \o block.id \o "\" "
        \o JoinWith([i \in 1..Len(shown) |-> pair(shown[i])], " ") \o "}"

\* seg matches text at position i; _ matches any one character.
SegAt(text, i, seg) ==
    /\ i >= 1
    /\ i + Len(seg) - 1 <= Len(text)
    /\ IF Includes(seg, "_")
       THEN \A k \in 1..Len(seg) : Ch(seg, k) = "_" \/ Ch(seg, k) = Ch(text, i + k - 1)
       ELSE SubSeq(text, i, i + Len(seg) - 1) = seg

\* Segments k.. of a LIKE pattern (split on %) against text from pos on.
RECURSIVE LikeFrom(_, _, _, _)
LikeFrom(segs, k, text, pos) ==
    LET seg == segs[k]
        n   == Len(seg)
    IN  IF k = Len(segs)
        THEN IF k = 1 THEN n = Len(text) /\ SegAt(text, 1, seg)
             ELSE Len(text) - n + 1 >= pos /\ SegAt(text, Len(text) - n + 1, seg)
        ELSE IF k = 1
        THEN SegAt(text, 1, seg) /\ LikeFrom(segs, 2, text, n + 1)
        ELSE LET at == {i \in pos..(Len(text) - n + 1) : SegAt(text, i, seg)}
             IN  at # {} /\ LikeFrom(segs, k + 1, text, SetMin(at) + n)

\* SQLite's text LIKE pattern: % any run, _ any character, ASCII letters
\* compared without case, no escape character.
Like(text, pattern) ==
    LikeFrom(SplitOn(ToLowerCase(pattern), "%"), 1, ToLowerCase(text), 1)

\* The pattern is written in the statement between single quotes.  The
\* store reads the literal up to the first quote that is not doubled: the
\* literal closes early when the pattern holds such a quote.
RECURSIVE ClosesEarly(_)
ClosesEarly(pattern) ==
    IF pattern = "" THEN FALSE
    ELSE IF Ch(pattern, 1) # "'" THEN ClosesEarly(Tail(pattern))
    ELSE IF Len(pattern) >= 2 /\ Ch(pattern, 2) = "'"
    THEN ClosesEarly(SubSeq(pattern, 3, Len(pattern)))
    ELSE TRUE

\* The string a literal denotes: each doubled quote is one quote.
RECURSIVE LiteralValue(_)
LiteralValue(pattern) ==
    IF pattern = "" THEN ""
    ELSE IF Len(pattern) >= 2 /\ SubSeq(pattern, 1, 2) = "''"
    THEN "'" \o LiteralValue(SubSeq(pattern, 3, Len(pattern)))
    ELSE Ch(pattern, 1) \o LiteralValue(Tail(pattern))

\* The value of one clause given whether its LIKE matched: NOT LIKE
\* negates the match, the connective AND NOT negates the clause.
TermValue(item, matched) ==
    IF item.connective = "AND NOT"
    THEN ~(IF item.negated THEN ~matched ELSE matched)
    ELSE (IF item.negated THEN ~matched ELSE matched)

\* The items of the OR-free run that begins at item i.
RunFrom(items, i) ==
    i..SetMin({j - 1 : j \in {k \in (i + 1)..Len(items) : items[k].connective = "OR"}}
              \cup {Len(items)})

\* A WHERE expression c1 op2 c2 ... opn cn under SQL precedence: NOT binds
\* tighter than AND, AND tighter than OR.
EvalWhere(items, ial) ==
    \/ Len(items) = 0
    \/ \E i \in {1} \cup {k \in 1..Len(items) : items[k].connective = "OR"} :
          \A k \in RunFrom(items, i) :
              TermValue(items[k], Like(ial, LiteralValue(items[k].pattern)))

\* Character order for the comparison of text columns.
Ascii ==
    " !\"#$%&'()*+,-./0123456789:;<=>?@ABCDEFGHIJKLMNOPQRSTUVWXYZ[\\]^_abcdefghijklmnopqrstuvwxyz{|}~"

CharCode(c) == SetMin({i \in 1..Len(Ascii) : Ch(Ascii, i) = c} \cup {Len(Ascii) + 1})

RECURSIVE StrLess(_, _)
StrLess(a, b) ==
    IF b = "" THEN FALSE
    ELSE IF a = "" THEN TRUE
    ELSE IF Ch(a, 1) = Ch(b, 1) THEN StrLess(Tail(a), Tail(b))
    ELSE CharCode(Ch(a, 1)) < CharCode(Ch(b, 1))

ColumnLess(column, a, b) ==
    IF column = "content" THEN StrLess(a.content, b.content) ELSE a.created < b.created

\* Row a sorts strictly before row b under ORDER BY keys[k..].
RECURSIVE RowBefore(_, _, _, _)
RowBefore(keys, k, a, b) ==
    IF k > Len(keys) THEN FALSE
    ELSE LET lt == ColumnLess(keys[k].column, a, b)
             gt == ColumnLess(keys[k].column, b, a)
         IN  IF keys[k].direction = "ASC"
             THEN lt \/ (~gt /\ RowBefore(keys, k + 1, a, b))
             ELSE gt \/ (~lt /\ RowBefore(keys, k + 1, a, b))

RECURSIVE InsertRow(_, _, _)
InsertRow(sorted, row, keys) ==
    IF sorted = <<>> THEN <<row>>
    ELSE IF RowBefore(keys, 1, row, Head(sorted)) THEN <<row>> \o sorted
    ELSE <<Head(sorted)>> \o InsertRow(Tail(sorted), row, keys)

RECURSIVE OrderBy(_, _)
OrderBy(rows, keys) ==
    IF rows = <<>> THEN <<>>
    ELSE InsertRow(OrderBy(SubSeq(rows, 1, Len(rows) - 1), keys), rows[Len(rows)], keys)

\* LIMIT n; a negative LIMIT is no limit in SQLite.
CutToLimit(stmt, ordered) ==
    IF stmt.hasLimit /\ stmt.limit >= 0 /\ stmt.limit < Len(ordered)
    THEN SubSeq(ordered, 1, stmt.limit)
    ELSE ordered

Ordered(stmt, matched) ==
    IF stmt.orderBy = <<>> THEN matched ELSE OrderBy(matched, stmt.orderBy)

\* The rows /api/query/sql returns for a compiled statement: the matching
\* blocks in table order, ordered, then cut to LIMIT.
RunSQL(stmt, blocks) ==
    CutToLimit(stmt, Ordered(stmt, SelectSeq(blocks, LAMBDA b : EvalWhere(stmt.where, Ial(b)))))

(***************************************************************************)
(* QueryEngine: compilation to SQL.                                        *)
(***************************************************************************)
RECURSIVE escapeSQL(_)
escapeSQL(value) ==
    IF value = "" THEN ""
    ELSE LET c == Ch(value, 1)
         IN  (CASE c = "\\" -> "\\\\"
                [] c = "'" -> "''"
                [] c = "%" -> "\\%"
                [] c = "_" -> "\\_"
                [] OTHER -> c) \o escapeSQL(Tail(value))

\* A clause (ial LIKE 'pattern') or (ial NOT LIKE 'pattern').
LikeClause(pattern) == [negated |-> FALSE, pattern |-> pattern]

NotLikeClause(pattern) == [negated |-> TRUE, pattern |-> pattern]

FirstValue(filter) == filter.value.items[1]

StatusClause(operator, statusUpper) ==
    CASE operator = EQUALS -> LikeClause("%custom-task-status=\"" \o statusUpper \o "\"%")
      [] operator = NOT_EQUALS -> NotLikeClause("%custom-task-status=\"" \o statusUpper \o "\"%")
      [] OTHER -> LikeClause("%custom-task-status%")

buildStatusFilter(filter) == StatusClause(filter.operator, ToUpperCase(FirstValue(filter)))

TagsClause(operator, escaped) ==
    CASE operator \in {CONTAINS, IN_OP} ->
           LikeClause("%custom-task-tags=\"%" \o escaped \o "%\"%")
      [] operator \in {NOT_CONTAINS, NOT_IN} ->
           NotLikeClause("%custom-task-tags=\"%" \o escaped \o "%\"%")
      [] OTHER -> LikeClause("%custom-task-tags%")

\* tagValue.startsWith('#') ? tagValue.substring(1) : tagValue
CleanTag(tagValue) == IF StartsWith(tagValue, "#") THEN Tail(tagValue) ELSE tagValue

buildTagsFilter(filter) ==
    TagsClause(filter.operator, escapeSQL(CleanTag(FirstValue(filter))))

DateClause(attrName, operator, parsedDate) ==
    CASE operator = EQUALS -> LikeClause("%" \o attrName \o "=\"" \o parsedDate \o "\"%")
      [] operator = NOT_EQUALS -> NotLikeClause("%" \o attrName \o "=\"" \o parsedDate \o "\"%")
      [] OTHER -> LikeClause("%" \o attrName \o "%")

buildDateFilter(attrName, filter) ==
    DateClause(attrName, filter.operator, parseQueryDate(FirstValue(filter)))

\* The standard attribute filter at the end of buildFilterClause.
AttributeClause(attrName, operator, escaped) ==
    CASE operator = EQUALS -> LikeClause("%" \o attrName \o "=\"" \o escaped \o "\"%")
      [] operator = NOT_EQUALS -> NotLikeClause("%" \o attrName \o "=\"" \o escaped \o "\"%")
      [] operator = CONTAINS -> LikeClause("%" \o attrName \o "=\"%" \o escaped \o "%\"%")
      [] operator = NOT_CONTAINS -> NotLikeClause("%" \o attrName \o "=\"%" \o escaped \o "%\"%")
      [] OTHER -> LikeClause("%" \o attrName \o "%")

ClauseOfField(filter, field, attrName) ==
    IF field = "status" THEN buildStatusFilter(filter)
    ELSE IF field = "tags" THEN buildTagsFilter(filter)
    ELSE IF EndsWith(field, "_date") THEN buildDateFilter(attrName, filter)
    ELSE AttributeClause(attrName, filter.operator, escapeSQL(FirstValue(filter)))

\* buildFilterClause has thrown: field.replace is not a function.
Thrown == [negated |-> FALSE, pattern |-> TypeError]

ClauseOfNormalized(filter, field) ==
    IF IsString(field)
    THEN ClauseOfField(filter, field, "custom-task-" \o ReplaceAll(field, "_", "-"))
    ELSE Thrown

buildFilterClause(filter) == ClauseOfNormalized(filter, normalizeFieldName(filter.field))

\* The list buildWhereClauses returns, as (connective, clause) items; the
\* first item is the task-block clause, which has no connective before it.
WhereItem(connective, clause) ==
    [connective |-> connective, negated |-> clause.negated, pattern |-> clause.pattern]

buildWhereClauses(filters) ==
    <<WhereItem("", LikeClause("%custom-task-id%"))>> \o
    [i \in 1..Len(filters) |->
        WhereItem(CASE i = 1 /\ filters[i].logic = Undefined -> "AND"
                    [] filters[i].logic = LogicAnd -> "AND"
                    [] filters[i].logic = LogicOr -> "OR"
                    [] filters[i].logic = LogicNot -> "AND NOT"
                    [] OTHER -> "AND",
                  buildFilterClause(filters[i]))]

buildSortClause(sort) ==
    [column |-> IF normalizeFieldName(sort.field) = "description" THEN "content" ELSE "created",
     direction |-> IF sort.direction = DESC THEN "DESC" ELSE "ASC"]

\* The statement compileToSQL assembles: SELECT * FROM blocks WHERE ...
\* [ORDER BY ...] [LIMIT n]; throws when buildFilterClause threw, and then
\* there is no statement.
compileToSQL(query) ==
    [throws |-> \E i \in 1..Len(query.filters) : buildFilterClause(query.filters[i]) = Thrown,
     where |-> buildWhereClauses(query.filters),
     orderBy |-> [i \in 1..Len(query.sorts) |-> buildSortClause(query.sorts[i])],
     hasLimit |-> LimitTruthy(query),
     limit |-> IF LimitTruthy(query) THEN query.limit ELSE 0]

(***************************************************************************)
(* The records of the store.  Every block is a task block written by       *)
(* taskDataToBlockAttributes; created is the block's creation order, which  *)
(* is not the order of the due dates.                                      *)
(***************************************************************************)
Task(id, status, symbol, due, tags, description) ==
    [task_id |-> id, status |-> status, status_symbol |-> symbol, due_date |-> due,
     priority |-> 6, tags |-> tags, description |-> description]

Block(id, created, task) ==
    [id |-> id, created |-> created,
     content |-> task.status_symbol \o " " \o task.description,
     attrs |-> taskDataToBlockAttributes(task)]

\* The three records of the end-to-end scenario, and the same table after
\* the second task has been completed.
StoreBefore ==
    <<Block("b1", 2, Task("t1", "DONE", "[x]", "2026-01-20", <<"work">>, "report")),
      Block("b2", 3, Task("t2", "TODO", "[ ]", "2026-01-26", <<"workshop">>, "slides")),
      Block("b3", 1, Task("t3", "TODO", "[ ]", "2026-02-10", <<"home">>, "taxes"))>>

StoreAfter ==
    <<Block("b1", 2, Task("t1", "DONE", "[x]", "2026-01-20", <<"work">>, "report")),
      Block("b2", 3, Task("t2", "DONE", "[x]", "2026-01-26", <<"workshop">>, "slides")),
      Block("b3", 1, Task("t3", "TODO", "[ ]", "2026-02-10", <<"home">>, "taxes"))>>

StoreVersions == <<StoreBefore, StoreAfter>>

(***************************************************************************)
(* GlobalFilterService.appendToQuery (config/GlobalFilterService.ts).      *)
(***************************************************************************)
appendToQuery(queryString, conditions) ==
    LET defaultConditions == Trim(conditions)
        hasWhere == Includes(ToLowerCase(queryString), "where")
    IN  IF defaultConditions = "" THEN queryString
        ELSE IF hasWhere THEN queryString \o "\nand " \o defaultConditions
        ELSE queryString \o "\nwhere " \o defaultConditions

(***************************************************************************)
(* Bounds and inputs of the model.                                         *)
(***************************************************************************)
\* The clock runs from 0 to MaxNow.
MaxNow == 2

\* The number of query executions a behaviour issues.
MaxCalls == 2

\* setCacheTimeout is called with the values 1..MaxCacheTimeout.
MaxCacheTimeout == 1

\* updateSettings is called with maxExecutionTime in 1..MaxExecutionTime.
MaxExecutionTime == 1

\* getBlockAttrs fails at most MaxFailures times.
MaxFailures == 3

\* The query of the end-to-end scenario.
EndToEndQuery ==
    "tasks\nwhere status != done\n  and due <= today + 7d\nsort by due asc\nlimit 50"

\* All tasks by due date.
SortedQuery == "tasks\nsort by due asc"

\* const query in refreshDashboard
DashboardQuery == "tasks\nlimit 1000"

\* The query texts a caller issues.
Texts == <<EndToEndQuery, "tasks", "where tag includes work", SortedQuery, DashboardQuery>>

\* DEFAULT_SETTINGS.globalFilter.defaultConditions
DefaultConditions == ""

\* For each query text, once and for all: the string handleQueryExecute
\* passes on, its parse and its compiled statement; for each version of
\* the store, the identifiers querySQL returns for the statement and the
\* task each block hydrates to.
RECURSIVE FilteredTexts(_)
FilteredTexts(n) ==
    IF n = 0 THEN <<>>
    ELSE Append(FilteredTexts(n - 1), appendToQuery(Texts[n], DefaultConditions))

FilteredQuery == FilteredTexts(Len(Texts))

TextIndex(queryString) == CHOOSE i \in 1..Len(Texts) : Texts[i] = queryString

RECURSIVE ParsedTexts(_)
ParsedTexts(n) ==
    IF n = 0 THEN <<>> ELSE Append(ParsedTexts(n - 1), parse(Texts[n]))

Parsed == ParsedTexts(Len(Texts))

RECURSIVE CompiledTexts(_)
CompiledTexts(n) ==
    IF n = 0 THEN <<>> ELSE Append(CompiledTexts(n - 1), compileToSQL(Parsed[n]))

Compiled == CompiledTexts(Len(Texts))

RECURSIVE RowIds(_)
RowIds(rows) ==
    IF rows = <<>> THEN <<>> ELSE <<Head(rows).id>> \o RowIds(Tail(rows))

RECURSIVE RowsOfTexts(_, _)
RowsOfTexts(n, blocks) ==
    IF n = 0 THEN <<>>
    ELSE Append(RowsOfTexts(n - 1, blocks), RowIds(RunSQL(Compiled[n], blocks)))

RECURSIVE RowsOfVersions(_)
RowsOfVersions(v) ==
    IF v = 0 THEN <<>>
    ELSE Append(RowsOfVersions(v - 1), RowsOfTexts(Len(Texts), StoreVersions[v]))

Rows == RowsOfVersions(Len(StoreVersions))

\* SiYuanAPI.querySQL(sql) for the statement of queryString, against
\* version v of the store.
querySQL(queryString, v) == Rows[v][TextIndex(queryString)]

RECURSIVE TasksOfBlocks(_)
TasksOfBlocks(blocks) ==
    IF blocks = <<>> THEN <<>>
    ELSE <<[id |-> Head(blocks).id,
            task |-> blockAttributesToTaskData(Head(blocks).id, Head(blocks).attrs)]>>
         \o TasksOfBlocks(Tail(blocks))

RECURSIVE TasksOfVersions(_)
TasksOfVersions(v) ==
    IF v = 0 THEN <<>>
    ELSE Append(TasksOfVersions(v - 1), TasksOfBlocks(StoreVersions[v]))

Hydrated == TasksOfVersions(Len(StoreVersions))

TaskOf(tasks, id) == tasks[CHOOSE i \in 1..Len(tasks) : tasks[i].id = id].task

\* getBlockAttrs(id) against version v of the store.
getBlockAttrs(id, v) ==
    StoreVersions[v][CHOOSE i \in 1..Len(StoreVersions[v]) : StoreVersions[v][i].id = id].attrs

\* The attributes without the one named: the block has lost it.
WithoutAttr(attrs, name) == [a \in DOMAIN attrs |-> IF a = name THEN Undefined ELSE attrs[a]]

\* getBlockAttrs(id) against version v of the store, converted by
\* blockAttributesToTaskData.
getTask(id, v) == TaskOf(Hydrated[v], id)

(***************************************************************************)
(* State.                                                                  *)
(***************************************************************************)
VARIABLES
    now,               \* Date.now()
    storeVer,          \* which version of the table the store holds
    cacheTimeout,      \* QueryEngine.cacheTimeout
    maxExecutionTime,  \* QueryOptimizer.settings.maxExecutionTime
    queryCache,        \* QueryEngine.queryCache: query string -> entry
    calls,             \* the executions of executeQuery, by number
    fetchCount,        \* how often SiYuanAPI.querySQL has been invoked
    failures,          \* how often getBlockAttrs has failed
    lastWrite,         \* history: for each string, its last queryCache.set
    enableCache,       \* QueryOptimizer.settings.enableCache
    pipe               \* a query taken through validate / optimize / compile

vars == <<now, storeVer, cacheTimeout, maxExecutionTime, queryCache, calls,
          fetchCount, failures, lastWrite, pipe, enableCache>>

CallIds == 1..MaxCalls

\* private cacheTimeout: number = 60000
DefaultCacheTimeout == 60000

\* DEFAULT_OPTIMIZATION_SETTINGS.enableCache
DefaultEnableCache == TRUE

\* A call that has not been issued.  pc, rows, next and tasks are the
\* execution's position and locals; skipped is history, the rows whose
\* hydration yielded no task; outcome is what the caller of
\* executeWithTimeout (or, without a timer, of executeQuery) has received;
\* timer, startedAt and delay are the setTimeout of executeWithTimeout;
\* afterWrite is history, the call is the refresh that follows a write of
\* handleTaskStatusToggle.
IdleCall ==
    [pc |-> "idle", queryString |-> "", useCache |-> FALSE, viaPlugin |-> FALSE,
     fromCache |-> FALSE, fetches |-> 0,
     rows |-> <<>>, next |-> 0, tasks |-> <<>>, skipped |-> <<>>, result |-> <<>>,
     outcome |-> "pending", settledAt |-> 0,
     timer |-> "none", startedAt |-> 0, delay |-> 0, afterWrite |-> FALSE]

\* No query is in the pipeline.
NoPipe == [stage |-> "off"]

Init ==
    /\ now = 0
    /\ storeVer = 1
    /\ cacheTimeout = DefaultCacheTimeout
    /\ maxExecutionTime = DefaultMaxExecutionTime
    /\ queryCache = <<>>
    /\ calls = [c \in CallIds |-> IdleCall]
    /\ fetchCount = 0
    /\ failures = 0
    /\ lastWrite = <<>>
    /\ enableCache = DefaultEnableCache
    /\ pipe = NoPipe

(***************************************************************************)
(* QueryEngine.executeQuery and QueryOptimizer.executeWithTimeout.         *)
(***************************************************************************)
\* The cache check with the freshness comparison inverted.
cacheLookupInverted(cache, queryString, useCache, t, timeout) ==
    IF /\ useCache
       /\ queryString \in DOMAIN cache
       /\ t - cache[queryString].timestamp > timeout
    THEN [hit |-> TRUE, result |-> cache[queryString].result]
    ELSE [hit |-> FALSE, result |-> <<>>]

\* The cache check with an entry of age exactly cacheTimeout still fresh.
cacheLookupInclusive(cache, queryString, useCache, t, timeout) ==
    IF /\ useCache
       /\ queryString \in DOMAIN cache
       /\ t - cache[queryString].timestamp <= timeout
    THEN [hit |-> TRUE, result |-> cache[queryString].result]
    ELSE [hit |-> FALSE, result |-> <<>>]

\* The cache check at the head of executeQuery.
cacheLookup(cache, queryString, useCache, t, timeout) ==
    IF /\ useCache
       /\ queryString \in DOMAIN cache
       /\ t - cache[queryString].timestamp < timeout
    THEN [hit |-> TRUE, result |-> cache[queryString].result]
    ELSE [hit |-> FALSE, result |-> <<>>]

\* A cache in which the first write of a string wins: set keeps an entry
\* that is already there.
cacheSetIfAbsent(cache, queryString, result, t) ==
    [k \in DOMAIN cache \cup {queryString} |->
        IF k \in DOMAIN cache THEN cache[k] ELSE [result |-> result, timestamp |-> t]]

\* queryCache.set(queryString, {result, timestamp})
cacheSet(cache, queryString, result, t) ==
    [k \in DOMAIN cache \cup {queryString} |->
        IF k = queryString THEN [result |-> result, timestamp |-> t] ELSE cache[k]]

\* A race whose promise follows every settlement: the last one is the
\* caller's outcome.
SettleLast(call, outcome) == [call EXCEPT !.outcome = outcome, !.settledAt = now]

\* Promise.race: the first settlement is the caller's outcome.
Settle(call, outcome) ==
    IF call.outcome = "pending"
    THEN [call EXCEPT !.outcome = outcome, !.settledAt = now]
    ELSE call

\* The delay executeWithTimeout passes to setTimeout.
TimerDelay(settingsMaxExecutionTime) == settingsMaxExecutionTime

\* executeQuery with single-flight de-duplication: a call issued while a
\* call for the same string is in flight joins it instead of fetching.
StartSingleFlight(c, text, useCache, viaPlugin) ==
    LET queryString == IF viaPlugin THEN FilteredQuery[TextIndex(text)] ELSE text
        cached == cacheLookup(queryCache, queryString, useCache, now, cacheTimeout)
        inFlight == \E b \in CallIds : /\ calls[b].pc \in {"awaitSQL", "hydrating"}
                                       /\ calls[b].queryString = queryString
        issued == [IdleCall EXCEPT
                     !.queryString = queryString, !.useCache = useCache,
                     !.viaPlugin = viaPlugin,
                     !.timer = IF viaPlugin THEN "armed" ELSE "none",
                     !.startedAt = IF viaPlugin THEN now ELSE 0,
                     !.delay = IF viaPlugin THEN maxExecutionTime ELSE 0]
    IN  /\ calls[c].pc = "idle"
        /\ \A b \in CallIds : b < c => calls[b].pc # "idle"
        /\ IF cached.hit
           THEN /\ calls' = [calls EXCEPT ![c] =
                    Settle([issued EXCEPT !.pc = "done", !.fromCache = TRUE,
                                          !.result = cached.result], "value")]
                /\ fetchCount' = fetchCount
           ELSE IF Compiled[TextIndex(queryString)].throws
           THEN /\ calls' = [calls EXCEPT ![c] =
                    Settle([issued EXCEPT !.pc = "failed"], "error")]
                /\ fetchCount' = fetchCount
           ELSE IF inFlight
           THEN /\ calls' = [calls EXCEPT ![c] = [issued EXCEPT !.pc = "awaitSQL"]]
                /\ fetchCount' = fetchCount
           ELSE /\ calls' = [calls EXCEPT ![c] =
                    [issued EXCEPT !.pc = "awaitSQL", !.fetches = 1]]
                /\ fetchCount' = fetchCount + 1
        /\ UNCHANGED <<now, storeVer, cacheTimeout, maxExecutionTime, queryCache,
                       failures, lastWrite, pipe, enableCache>>

\* The call after executeQuery has run from its first line to its first
\* await: it has returned the cached result, has thrown in compileToSQL, or
\* awaits querySQL; with viaPlugin, called by handleQueryExecute under
\* executeWithTimeout, which has armed the timer.
StartedCall(text, useCache, viaPlugin) ==
    LET queryString == IF viaPlugin THEN FilteredQuery[TextIndex(text)] ELSE text
        cached == cacheLookup(queryCache, queryString, useCache, now, cacheTimeout)
        issued == [IdleCall EXCEPT
                     !.queryString = queryString, !.useCache = useCache,
                     !.viaPlugin = viaPlugin,
                     !.timer = IF viaPlugin THEN "armed" ELSE "none",
                     !.startedAt = IF viaPlugin THEN now ELSE 0,
                     !.delay = IF viaPlugin THEN TimerDelay(maxExecutionTime) ELSE 0]
    IN  IF cached.hit
        THEN Settle([issued EXCEPT !.pc = "done", !.fromCache = TRUE,
                                   !.result = cached.result], "value")
        ELSE IF Compiled[TextIndex(queryString)].throws
        THEN Settle([issued EXCEPT !.pc = "failed"], "error")
        ELSE [issued EXCEPT !.pc = "awaitSQL", !.fetches = 1]

\* A caller invokes executeQuery; the calls are numbered in the order of
\* their invocation.
Start(c, text, useCache, viaPlugin) ==
    /\ calls[c].pc = "idle"
    /\ \A b \in CallIds : b < c => calls[b].pc # "idle"
    /\ calls' = [calls EXCEPT ![c] = StartedCall(text, useCache, viaPlugin)]
    /\ fetchCount' = fetchCount + calls'[c].fetches
    /\ UNCHANGED <<now, storeVer, cacheTimeout, maxExecutionTime, queryCache,
                   failures, lastWrite, pipe, enableCache>>

\* SiYuanTasksPlugin.handleQueryExecute(query)
HandleQueryExecute(c, i) == Start(c, Texts[i], TRUE, TRUE)

\* QueryEngine.executeQuery(queryString, useCache) called directly.
ExecuteQuery(c, i, useCache) == Start(c, Texts[i], useCache, FALSE)

\* The tail of executeQuery: cache the tasks and return them.
Finish(c, call, tasks) ==
    /\ calls' = [calls EXCEPT ![c] =
          Settle([call EXCEPT !.pc = "done", !.tasks = tasks, !.result = tasks], "value")]
    /\ queryCache' = cacheSet(queryCache, call.queryString, tasks, now)
    /\ lastWrite' = [k \in DOMAIN lastWrite \cup {call.queryString} |->
                        IF k = call.queryString
                        THEN [by |-> c, at |-> now, cleared |-> FALSE]
                        ELSE lastWrite[k]]

\* querySQL resolves with the rows the store holds for the statement.
SqlResolve(c) ==
    LET call == calls[c]
        rows == querySQL(call.queryString, storeVer)
    IN  /\ call.pc = "awaitSQL"
        /\ IF rows = <<>>
           THEN Finish(c, call, <<>>)
           ELSE /\ calls' = [calls EXCEPT ![c] =
                      [call EXCEPT !.pc = "hydrating", !.rows = rows, !.next = 1]]
                /\ UNCHANGED <<queryCache, lastWrite>>
        /\ UNCHANGED <<now, storeVer, cacheTimeout, maxExecutionTime,
                       fetchCount, failures, pipe, enableCache>>

\* executeQuery retrying querySQL when it rejects.
SqlFailRetries(c) ==
    /\ calls[c].pc = "awaitSQL"
    /\ calls[c].fetches < 2
    /\ calls' = [calls EXCEPT ![c] = [calls[c] EXCEPT !.fetches = @ + 1]]
    /\ fetchCount' = fetchCount + 1
    /\ UNCHANGED <<now, storeVer, cacheTimeout, maxExecutionTime, queryCache,
                   failures, lastWrite, pipe, enableCache>>

\* querySQL rejects (result.code # 0, or the request fails): executeQuery
\* rejects with that error.
SqlFail(c) ==
    /\ calls[c].pc = "awaitSQL"
    /\ calls' = [calls EXCEPT ![c] = Settle([calls[c] EXCEPT !.pc = "failed"], "error")]
    /\ UNCHANGED <<now, storeVer, cacheTimeout, maxExecutionTime, queryCache,
                   fetchCount, failures, lastWrite, pipe, enableCache>>

\* What getBlockAttrs does for a row: it resolves with the block's
\* attributes, resolves with attributes that lack the task description, or
\* throws.
HydrateOutcomes == {"attrs", "noDescription", "throws"}

\* The task blockAttributesToTaskData makes of what getBlockAttrs resolved
\* with; NullTask also stands for no task because getBlockAttrs threw.
HydratedTask(id, how) ==
    CASE how = "attrs" -> getTask(id, storeVer)
      [] how = "noDescription" ->
           blockAttributesToTaskData(
               id, WithoutAttr(getBlockAttrs(id, storeVer), "custom-task-description"))
      [] OTHER -> NullTask

\* The call after one iteration of resultsToTasks that made this task of
\* the row.
AfterRow(call, id, task) ==
    IF task.isNull
    THEN [call EXCEPT !.skipped = Append(@, id)]
    ELSE [call EXCEPT !.tasks = Append(@, task)]

\* One iteration of resultsToTasks, leaving the call as given; after the
\* last row executeQuery finishes.
HydrateRow(c, call) ==
    IF call.next = Len(call.rows)
    THEN Finish(c, call, call.tasks)
    ELSE /\ calls' = [calls EXCEPT ![c] = [call EXCEPT !.next = @ + 1]]
         /\ UNCHANGED <<queryCache, lastWrite>>

\* resultsToTasks with a failure aborting the batch: executeQuery rejects.
HydrateAborts(c, how) ==
    /\ calls[c].pc = "hydrating"
    /\ how = "attrs" \/ failures < MaxFailures
    /\ failures' = IF how = "attrs" THEN failures ELSE failures + 1
    /\ IF how = "attrs"
       THEN HydrateRow(c, AfterRow(calls[c], calls[c].rows[calls[c].next],
                                   HydratedTask(calls[c].rows[calls[c].next], how)))
       ELSE /\ calls' = [calls EXCEPT ![c] =
                    Settle([calls[c] EXCEPT !.pc = "failed"], "error")]
            /\ UNCHANGED <<queryCache, lastWrite>>
    /\ UNCHANGED <<now, storeVer, cacheTimeout, maxExecutionTime, fetchCount, pipe, enableCache>>

\* One iteration of resultsToTasks: getBlockAttrs for the next row, then
\* blockAttributesToTaskData; a row without a task is skipped.
Hydrate(c, how) ==
    /\ calls[c].pc = "hydrating"
    /\ how = "attrs" \/ failures < MaxFailures
    /\ failures' = IF how = "attrs" THEN failures ELSE failures + 1
    /\ HydrateRow(c, AfterRow(calls[c], calls[c].rows[calls[c].next],
                              HydratedTask(calls[c].rows[calls[c].next], how)))
    /\ UNCHANGED <<now, storeVer, cacheTimeout, maxExecutionTime, fetchCount, pipe, enableCache>>

\* A timer that is due one tick before its delay has elapsed.
TimerDueEarly(t, startedAt, delay) == t - startedAt >= delay - 1

\* The event loop may run a timer set at startedAt with this delay.
TimerDue(t, startedAt, delay) == t - startedAt >= delay

\* A timeout that also cancels the in-flight executeQuery.
TimerFireCancels(c) ==
    /\ calls[c].timer = "armed"
    /\ TimerDue(now, calls[c].startedAt, calls[c].delay)
    /\ calls' = [calls EXCEPT ![c] =
          Settle([calls[c] EXCEPT !.timer = "fired",
                     !.pc = IF calls[c].outcome = "pending" THEN "failed" ELSE @],
                 "timeout")]
    /\ UNCHANGED <<now, storeVer, cacheTimeout, maxExecutionTime, queryCache,
                   fetchCount, failures, lastWrite, pipe, enableCache>>

\* The setTimeout callback of executeWithTimeout runs: reject.
TimerFire(c) ==
    /\ calls[c].timer = "armed"
    /\ TimerDue(now, calls[c].startedAt, calls[c].delay)
    /\ calls' = [calls EXCEPT ![c] = Settle([calls[c] EXCEPT !.timer = "fired"], "timeout")]
    /\ UNCHANGED <<now, storeVer, cacheTimeout, maxExecutionTime, queryCache,
                   fetchCount, failures, lastWrite, pipe, enableCache>>

\* QueryEngine.clearCache()
ClearCache ==
    /\ queryCache' = <<>>
    /\ lastWrite' = [k \in DOMAIN lastWrite |-> [lastWrite[k] EXCEPT !.cleared = TRUE]]
    /\ UNCHANGED <<now, storeVer, cacheTimeout, maxExecutionTime, calls,
                   fetchCount, failures, pipe, enableCache>>

\* QueryEngine.setCacheTimeout(timeout)
SetCacheTimeout(timeout) ==
    /\ cacheTimeout' = timeout
    /\ UNCHANGED <<now, storeVer, maxExecutionTime, queryCache, calls,
                   fetchCount, failures, lastWrite, pipe, enableCache>>

\* QueryOptimizer.updateSettings({maxExecutionTime})
UpdateSettings(t) ==
    /\ maxExecutionTime' = t
    /\ UNCHANGED <<now, storeVer, cacheTimeout, queryCache, calls,
                   fetchCount, failures, lastWrite, pipe, enableCache>>

\* QueryOptimizer.updateSettings({enableCache})
UpdateEnableCache(enabled) ==
    /\ enableCache' = enabled
    /\ UNCHANGED <<now, storeVer, cacheTimeout, maxExecutionTime, queryCache, calls,
                   fetchCount, failures, lastWrite, pipe>>

\* A task is completed in the store (the second version of the table).
StoreWrite ==
    /\ storeVer < Len(StoreVersions)
    /\ storeVer' = storeVer + 1
    /\ UNCHANGED <<now, cacheTimeout, maxExecutionTime, queryCache, calls,
                   fetchCount, failures, lastWrite, pipe, enableCache>>

\* Time passes.
Tick ==
    /\ now < MaxNow
    /\ now' = now + 1
    /\ UNCHANGED <<storeVer, cacheTimeout, maxExecutionTime, queryCache, calls,
                   fetchCount, failures, lastWrite, pipe, enableCache>>

\* The engine called directly, with its cache.
Next ==
    \/ \E c \in CallIds, i \in 1..Len(Texts), useCache \in BOOLEAN : ExecuteQuery(c, i, useCache)
    \/ \E c \in CallIds : SqlResolve(c)
    \/ \E c \in CallIds : SqlFail(c)
    \/ \E c \in CallIds, how \in HydrateOutcomes : Hydrate(c, how)
    \/ ClearCache
    \/ \E t \in 1..MaxCacheTimeout : SetCacheTimeout(t)
    \/ StoreWrite
    \/ Tick

Spec == Init /\ [][Next]_vars

\* The plugin's query handler, under executeWithTimeout.
NextPlugin ==
    \/ \E c \in CallIds, i \in 1..Len(Texts) : HandleQueryExecute(c, i)
    \/ \E c \in CallIds : SqlResolve(c)
    \/ \E c \in CallIds : SqlFail(c)
    \/ \E c \in CallIds, how \in HydrateOutcomes : Hydrate(c, how)
    \/ \E c \in CallIds : TimerFire(c)
    \/ \E t \in 1..MaxExecutionTime : UpdateSettings(t)
    \/ \E enabled \in BOOLEAN : UpdateEnableCache(enabled)
    \/ Tick

SpecPlugin == Init /\ [][NextPlugin]_vars

(***************************************************************************)
(* The dashboard: handleTaskStatusToggle writes the task and refreshes;    *)
(* handleBlockUpdate does the same after syncContentToAttributes;          *)
(* refreshDashboard runs its query through handleQueryExecute.             *)
(***************************************************************************)
\* handleTaskStatusToggle(task) up to its await of updateTaskCompletely:
\* the request to write the completed task is on its way.
HandleTaskStatusToggle(c) ==
    /\ calls[c].pc = "idle"
    /\ \A b \in CallIds : b < c => calls[b].pc # "idle"
    /\ storeVer < Len(StoreVersions)
    /\ calls' = [calls EXCEPT ![c] = [IdleCall EXCEPT !.pc = "toggling"]]
    /\ UNCHANGED <<now, storeVer, cacheTimeout, maxExecutionTime, queryCache,
                   fetchCount, failures, lastWrite, pipe, enableCache>>

\* updateTaskCompletely writes the task to the store and resolves.
UpdateTaskCompletely(c) ==
    /\ calls[c].pc = "toggling"
    /\ storeVer' = Len(StoreVersions)
    /\ calls' = [calls EXCEPT ![c] = [IdleCall EXCEPT !.pc = "toggled"]]
    /\ UNCHANGED <<now, cacheTimeout, maxExecutionTime, queryCache,
                   fetchCount, failures, lastWrite, pipe, enableCache>>

\* updateTaskCompletely rejects: the handler logs the error and does not
\* refresh.
UpdateTaskFails(c) ==
    /\ calls[c].pc = "toggling"
    /\ calls' = [calls EXCEPT ![c] = [IdleCall EXCEPT !.pc = "failed"]]
    /\ UNCHANGED <<now, storeVer, cacheTimeout, maxExecutionTime, queryCache,
                   fetchCount, failures, lastWrite, pipe, enableCache>>

\* refreshDashboard up to the first await of its query: called by
\* handleTaskStatusToggle after its write, or on its own (a block was
\* deleted, the dashboard was opened).
RefreshDashboard(c) ==
    /\ \/ calls[c].pc = "toggled"
       \/ calls[c].pc = "idle" /\ \A b \in CallIds : b < c => calls[b].pc # "idle"
    /\ calls' = [calls EXCEPT ![c] =
          [StartedCall(DashboardQuery, TRUE, TRUE) EXCEPT
              !.afterWrite = (calls[c].pc = "toggled")]]
    /\ fetchCount' = fetchCount + calls'[c].fetches
    /\ UNCHANGED <<now, storeVer, cacheTimeout, maxExecutionTime, queryCache,
                   failures, lastWrite, pipe, enableCache>>

NextDashboard ==
    \/ \E c \in CallIds : RefreshDashboard(c)
    \/ \E c \in CallIds : HandleTaskStatusToggle(c)
    \/ \E c \in CallIds : UpdateTaskCompletely(c)
    \/ \E c \in CallIds : UpdateTaskFails(c)
    \/ \E c \in CallIds : SqlResolve(c)
    \/ \E c \in CallIds : SqlFail(c)
    \/ \E c \in CallIds, how \in HydrateOutcomes : Hydrate(c, how)
    \/ \E c \in CallIds : TimerFire(c)
    \/ \E t \in 1..MaxExecutionTime : UpdateSettings(t)
    \/ Tick

SpecDashboard == Init /\ [][NextDashboard]_vars

(***************************************************************************)
(* The optimizer's functions applied to parsed queries: one query is       *)
(* validated, optimized, and compiled and run as executeQuery does, in any *)
(* order.                                                                  *)
(***************************************************************************)
\* Limits 1..MaxLimit are written in the query texts.
MaxLimit == 3

\* The optimizer is constructed with maxResults in 1..MaxResults, or with
\* the default.
MaxResults == 2

\* s repeated n times, joined by sep.
RECURSIVE Repeat(_, _, _)
Repeat(s, sep, n) ==
    IF n = 1 THEN s
    ELSE Repeat(s, sep, n \div 2) \o sep \o Repeat(s, sep, n - (n \div 2))

LimitTexts ==
    {"tasks\nlimit 0", "tasks\nlimit -5", "tasks\nlimit 50", "tasks\nlimit x"}
        \cup {"tasks\nlimit " \o IntToStr(n) : n \in 1..MaxLimit}
        \cup {"where status = TODO\nlimit " \o IntToStr(n) : n \in 0..MaxLimit}

ListTexts ==
    {"where tags in " \o Repeat("a", ",", n) \o "\nlimit 0" :
        n \in {MaxFilterValues - 1, MaxFilterValues, MaxFilterValues + 1}}

\* Field names: the aliases, canonical names, names that are no alias, and
\* the names of properties every object has.
FieldNames ==
    {"due", "scheduled", "start", "done", "cancelled", "tag", "depends",
     "Due", "due_date", "tags", "depends_on", "status", "priority", "foo",
     "constructor", "__proto__"}

FieldTexts == {"where " \o f \o " = x" : f \in FieldNames}

\* Filters of each kind (status, date, tags, attribute) whose value holds a
\* single quote, a backslash or a LIKE wildcard.
QuotedValues == {"it's", "a'b'c", "a''b", "a\\b", "50%"}

QuotedTexts ==
    {"where " \o f \o " " \o op \o " " \o v :
        f \in {"status", "due", "tag", "priority"}, op \in {"=", "includes"},
        v \in QuotedValues}

\* Filters on a field no task has, with operators of each kind.
UnrecognizedTexts ==
    {"where foo " \o op \o " x" : op \in {"!=", ">", "<", "includes", "not includes", "in"}}

\* Three filters, each on a line of its own, with a logic line before the
\* second and before the third.
Connectives == {"and", "or", "not"}

ChainText(k2, k3) ==
    "where tag includes home\n" \o k2 \o "\nwhere status = DONE\n" \o k3
        \o "\nwhere tag includes work"

ChainTexts == {ChainText(k2, k3) : k2, k3 \in Connectives}

PipeTexts ==
    {Texts[i] : i \in 1..Len(Texts)} \cup LimitTexts \cup ListTexts \cup FieldTexts
        \cup UnrecognizedTexts \cup QuotedTexts \cup ChainTexts
        \cup {"where status = TODO", "where status = TODO\nwhere tags in a,b"}

NotRun == [done |-> FALSE]

InitPipe ==
    /\ now = 0
    /\ storeVer = 1
    /\ cacheTimeout = DefaultCacheTimeout
    /\ maxExecutionTime = DefaultMaxExecutionTime
    /\ queryCache = <<>>
    /\ calls = [c \in CallIds |-> IdleCall]
    /\ fetchCount = 0
    /\ failures = 0
    /\ lastWrite = <<>>
    /\ enableCache = DefaultEnableCache
    /\ \E t \in PipeTexts, m \in (1..MaxResults) \cup {DefaultMaxResults} :
          pipe = [stage |-> "parsed", text |-> t, query |-> parse(t), maxResults |-> m,
                  validation |-> NotRun, optimized |-> NotRun, executed |-> NotRun]

engineVars == <<now, storeVer, cacheTimeout, maxExecutionTime, queryCache, calls,
                fetchCount, failures, lastWrite, enableCache>>

\* QueryOptimizer.validateQuery(query)
Validate ==
    /\ pipe.stage = "parsed"
    /\ ~pipe.validation.done
    /\ pipe' = [pipe EXCEPT !.validation =
                  [done |-> TRUE, out |-> validateQuery(pipe.query)]]
    /\ UNCHANGED engineVars

\* QueryOptimizer.optimize(query)
Optimize ==
    /\ pipe.stage = "parsed"
    /\ ~pipe.optimized.done
    /\ pipe' = [pipe EXCEPT !.optimized =
                  [done |-> TRUE, out |-> optimize(pipe.query, pipe.maxResults)]]
    /\ UNCHANGED engineVars

\* The field buildFilterClause works with, for each filter.
NormalizedFields(filters) ==
    [i \in 1..Len(filters) |-> normalizeFieldName(filters[i].field)]

\* A statement with a literal that closes early: for the values drawn
\* here the text after the closing quote is no SQL, and /api/query/sql
\* answers with an error code, so that querySQL throws.
Malformed(stmt) == \E k \in 1..Len(stmt.where) : ClosesEarly(stmt.where[k].pattern)

\* What executeQuery has after compileToSQL and querySQL: the statement and
\* its rows, or no rows when compileToSQL or querySQL threw.
Executed(stmt, fields, blocks) ==
    [done |-> TRUE, stmt |-> stmt, fields |-> fields, threw |-> stmt.throws,
     rejected |-> ~stmt.throws /\ Malformed(stmt),
     rows |-> IF stmt.throws \/ Malformed(stmt) THEN <<>> ELSE RowIds(RunSQL(stmt, blocks))]

\* compileToSQL(query) and querySQL(sql), as executeQuery runs them.
Execute ==
    /\ pipe.stage = "parsed"
    /\ ~pipe.executed.done
    /\ pipe' = [pipe EXCEPT !.executed =
                  Executed(compileToSQL(pipe.query), NormalizedFields(pipe.query.filters),
                           StoreVersions[storeVer])]
    /\ UNCHANGED engineVars

NextPipe == Validate \/ Optimize \/ Execute

SpecPipe == InitPipe /\ [][NextPipe]_vars

(***************************************************************************)
(* QueryParser.parse run line by line on the query texts of ParseTexts.    *)
(***************************************************************************)
\* Well-formed clauses, each with the filter it stands for.
Clauses ==
    <<[text |-> "status = TODO", field |-> "status", operator |-> EQUALS,
       value |-> Scalar("TODO")],
      [text |-> "priority > 2", field |-> "priority", operator |-> GREATER_THAN,
       value |-> Scalar("2")],
      [text |-> "tag includes work", field |-> "tag", operator |-> CONTAINS,
       value |-> Scalar("work")]>>

\* The line: where A and B or C
WhereAndOr(a, b, c) == "where " \o a.text \o " and " \o b.text \o " or " \o c.text

InlineTexts ==
    {WhereAndOr(Clauses[i], Clauses[j], Clauses[k]) :
        i \in 1..Len(Clauses), j \in 1..Len(Clauses), k \in 1..Len(Clauses)}

\* A where line followed by a continuation line: and B, or B.
Continued(a, connective, b) == "where " \o a.text \o "\n" \o connective \o " " \o b.text

\* The queries of the parser tests 'should parse query with multiple
\* filters' and 'should parse query with OR logic'.
MultipleFiltersQuery == "tasks\nwhere status != done\nand due <= today\nlimit 100"

OrLogicQuery == "tasks\nwhere status = TODO\nor status = DOING"

ContinuationTexts ==
    {Continued(Clauses[i], w, Clauses[j]) :
        i \in 1..Len(Clauses), j \in 1..Len(Clauses), w \in {"and", "or"}}
    \cup {MultipleFiltersQuery, OrLogicQuery}

\* Field names and values, each value with what parseValue is to make of it.
Fields == <<"status", "tag", "due">>

Values ==
    <<[text |-> "work", value |-> Scalar("work")],
      [text |-> "2026-01-26", value |-> Scalar("2026-01-26")],
      [text |-> "a,b", value |-> ListOf(<<"a", "b">>)]>>

\* The line: where f op v
WhereClause(f, opValue, v) == "where " \o f \o " " \o opValue \o " " \o v.text

\* Where lines with each of the two-word and of the two-character operators.
OperatorTexts ==
    {WhereClause(Fields[i], op, Values[j]) :
        i \in 1..Len(Fields), j \in 1..Len(Values),
        op \in {NOT_CONTAINS, NOT_IN, NOT_EQUALS, LESS_THAN_OR_EQUAL, GREATER_THAN_OR_EQUAL}}

\* A well-formed query, and lines that yield no filter, sort or limit.
BaseLines == <<"and", "where status = TODO", "sort by due desc", "limit 5">>

MalformedLines ==
    {"foo", "where", "where foo", "wher status = TODO", "status = TODO",
     "foo and bar", "foo or bar", "sort by", "limit", "limit x"}

\* The lines with one more line put in after the first p of them.
InsertLine(lines, p, line) ==
    SubSeq(lines, 1, p) \o <<line>> \o SubSeq(lines, p + 1, Len(lines))

MalformedTexts ==
    {JoinWith(InsertLine(BaseLines, p, m), "\n") : p \in 0..Len(BaseLines), m \in MalformedLines}
    \cup {JoinWith(BaseLines, "\n")}

\* Sort keys as written, each with the sort condition it stands for.
SortKeys ==
    <<[text |-> "due", sort |-> [field |-> "due", direction |-> ASC]],
      [text |-> "due desc", sort |-> [field |-> "due", direction |-> DESC]],
      [text |-> "priority asc", sort |-> [field |-> "priority", direction |-> ASC]],
      [text |-> "priority desc", sort |-> [field |-> "priority", direction |-> DESC]]>>

\* One sort by line with two comma-separated keys, and two sort by lines.
SortList(a, b) == "sort by " \o a.text \o ", " \o b.text

SortLines(a, b) == "tasks\nsort by " \o a.text \o "\nsort by " \o b.text

SortTexts ==
    {SortList(SortKeys[i], SortKeys[j]) : i \in 1..Len(SortKeys), j \in 1..Len(SortKeys)}
    \cup {SortLines(SortKeys[i], SortKeys[j]) : i \in 1..Len(SortKeys), j \in 1..Len(SortKeys)}

\* Queries with a limit line: numbers, signed numbers, and no number.
LimitLines ==
    {"limit 5", "limit 0", "limit -5", "limit -12", "limit +4", "limit 3.9",
     "limit 5x", "limit abc", "limit - 5", "LIMIT -1"}

LimitLineTexts == {"tasks\n" \o l : l \in LimitLines}

ParseTexts ==
    InlineTexts \cup ContinuationTexts \cup OperatorTexts \cup MalformedTexts \cup SortTexts \cup LimitLineTexts

\* globalFilter.defaultConditions as the user may set it: one well-formed
\* clause.
ConditionsTexts == {"status = TODO", "tag includes work"}

\* The queries handleQueryExecute is given: without a where line, with one,
\* and without one but with the word in a comment.
UserTexts ==
    {"tasks", "tasks\nlimit 5", SortedQuery, "tasks\nwhere priority > 2",
     "where tag includes home\nlimit 5", "tasks\n# somewhere\nlimit 5"}

\* A query text parsed as it is (the default conditions are empty), or a
\* user's query with the default conditions to append.
ParseInputs ==
    [user : ParseTexts, conditions : {DefaultConditions}]
        \cup [user : UserTexts, conditions : ConditionsTexts]

\* The string handleQueryExecute passes to executeQuery.
AppendedText(in) == appendToQuery(in.user, in.conditions)

\* parse has split the text into lines and starts its loop.
InitParse ==
    /\ now = 0
    /\ storeVer = 1
    /\ cacheTimeout = DefaultCacheTimeout
    /\ maxExecutionTime = DefaultMaxExecutionTime
    /\ queryCache = <<>>
    /\ calls = [c \in CallIds |-> IdleCall]
    /\ fetchCount = 0
    /\ failures = 0
    /\ lastWrite = <<>>
    /\ enableCache = DefaultEnableCache
    /\ \E in \in ParseInputs :
          pipe = [stage |-> "parsing", user |-> in.user, conditions |-> in.conditions,
                  text |-> AppendedText(in), lines |-> SplitOn(AppendedText(in), "\n"),
                  next |-> 1, q |-> EmptyQuery]

\* The effect of one line of the text: it is trimmed, skipped when empty
\* or a comment, and otherwise taken through the body of the loop.
LineEffect(q, line) == IF line = "" \/ StartsWith(line, "#") THEN q ELSE parseLine(q, line)

\* parse takes the next line.
ParseLine ==
    /\ pipe.stage = "parsing"
    /\ pipe.next <= Len(pipe.lines)
    /\ pipe' = [pipe EXCEPT !.q = LineEffect(@, Trim(pipe.lines[pipe.next])),
                            !.next = @ + 1]
    /\ UNCHANGED engineVars

\* parse returns the query.
ParseReturn ==
    /\ pipe.stage = "parsing"
    /\ pipe.next > Len(pipe.lines)
    /\ pipe' = [stage |-> "returned", user |-> pipe.user, conditions |-> pipe.conditions,
                text |-> pipe.text, query |-> ParsedQuery(pipe.q)]
    /\ UNCHANGED engineVars

NextParse == ParseLine \/ ParseReturn

SpecParse == InitParse /\ [][NextParse]_vars

(***************************************************************************)
(* Properties.                                                             *)
(***************************************************************************)
\* The parse of a string executeQuery was called with.
ParsedOf(queryString) == Parsed[TextIndex(queryString)]

\* In this step call c is issued.
Issued(c) == calls[c].pc = "idle" /\ calls'[c].pc # "idle"

\* In this step call c finishes an execution against the record source.
Finished(c) == calls[c].pc \in {"awaitSQL", "hydrating"} /\ calls'[c].pc = "done"

\* C1: an invalid query never reaches the record source: a call of
\* handleQueryExecute whose parsed query fails validateQuery has invoked
\* querySQL zero times.
C1_InvalidNeverReachesSource ==
    \A c \in CallIds :
        (/\ calls[c].viaPlugin
         /\ calls[c].pc # "idle"
         /\ ~validateQuery(ParsedOf(calls[c].queryString)).valid)
            => calls[c].fetches = 0

\* C2: the five-line end-to-end query, executed with the clock at 2026-01-25
\* against the three records (none of them changed, every hydration
\* succeeding), returns exactly one record, the todo due 2026-01-26.
C2_EndToEndReturnsTheTodo ==
    \A c \in CallIds :
        (/\ calls[c].queryString = EndToEndQuery
         /\ calls[c].pc = "done"
         /\ storeVer = 1
         /\ failures = 0)
            => /\ Len(calls[c].result) = 1
               /\ calls[c].result[1].task_id = "t2"
               /\ calls[c].result[1].due_date = "2026-01-26"
               /\ calls[c].result[1].status = "TODO"

\* The tag set of a task, tag markers stripped.
TagSet(task) == {CleanTag(task.tags[i]) : i \in 1..Len(task.tags)}

\* Text order of two ISO dates.
DateInRelation(date, operator, resolved) ==
    CASE operator = LESS_THAN -> StrLess(date, resolved)
      [] operator = LESS_THAN_OR_EQUAL -> ~StrLess(resolved, date)
      [] operator = GREATER_THAN -> StrLess(resolved, date)
      [] operator = GREATER_THAN_OR_EQUAL -> ~StrLess(date, resolved)
      [] OTHER -> TRUE

\* The task satisfies the filter exactly: tag includes X is membership of X
\* in the tag set, a date comparison is the relation of the due date to the
\* resolved date.
SatisfiesExactly(task, filter) ==
    CASE normalizeFieldName(filter.field) = "tags" /\ filter.operator = CONTAINS ->
           CleanTag(FirstValue(filter)) \in TagSet(task)
      [] normalizeFieldName(filter.field) = "due_date" ->
           DateInRelation(task.due_date, filter.operator, parseQueryDate(FirstValue(filter)))
      [] OTHER -> TRUE

\* C3: exactness of results: every record a finished executeQuery returned
\* satisfies every filter condition of its query exactly.
C3_ResultsAreExact ==
    \A c \in CallIds :
        calls[c].pc = "done" =>
            \A i \in 1..Len(calls[c].result) :
                \A k \in 1..Len(ParsedOf(calls[c].queryString).filters) :
                    SatisfiesExactly(calls[c].result[i],
                                     ParsedOf(calls[c].queryString).filters[k])

\* The smaller of two numbers.
Min(a, b) == IF a <= b THEN a ELSE b

\* C4: optimize returns limit min(L, maxResults) when the input limit L is
\* present and positive and maxResults otherwise, so the limit after
\* optimize is a positive integer <= maxResults.
C4_EffectiveLimit ==
    pipe.stage = "parsed" /\ pipe.optimized.done =>
        /\ pipe.optimized.out.hasLimit
        /\ pipe.optimized.out.limit =
              IF pipe.query.hasLimit /\ pipe.query.limit > 0
              THEN Min(pipe.query.limit, pipe.maxResults)
              ELSE pipe.maxResults
        /\ pipe.optimized.out.limit >= 1
        /\ pipe.optimized.out.limit <= pipe.maxResults

\* C5: optimization never loosens a caller-supplied limit: for every query
\* whose limit L is present (0 included), optimize(query).limit <= L, and
\* the record source returns at most L records.
C5_NeverLoosensLimit ==
    pipe.stage = "parsed" /\ pipe.query.hasLimit =>
        /\ pipe.optimized.done => pipe.optimized.out.limit <= pipe.query.limit
        /\ pipe.executed.done => Len(pipe.executed.rows) <= pipe.query.limit

\* Some filter's value is a list of more than MaxFilterValues elements.
HasLongList(query) ==
    \E i \in 1..Len(query.filters) :
        query.filters[i].value.isList /\ Len(query.filters[i].value.items) > MaxFilterValues

\* C6 as stated: validateQuery rejects exactly when the query has zero
\* filters and no limit, or some filter's value is a list of more than 100
\* elements.
C6_RejectsExactlyWithoutLimit ==
    pipe.stage = "parsed" /\ pipe.validation.done =>
        (~pipe.validation.out.valid <=>
            \/ Len(pipe.query.filters) = 0 /\ ~pipe.query.hasLimit
            \/ HasLongList(pipe.query))

\* C6 amended: validateQuery rejects, with a reason, exactly when the query
\* has zero filters and its limit is absent or 0, or some filter's value is
\* a list of more than 100 elements; every other query (a list of exactly
\* 100 elements included) is accepted, and the query is left as parsed.
C6_RejectsExactly ==
    pipe.stage = "parsed" /\ pipe.validation.done =>
        /\ ~pipe.validation.out.valid <=>
              \/ Len(pipe.query.filters) = 0
                     /\ (~pipe.query.hasLimit \/ pipe.query.limit = 0)
              \/ HasLongList(pipe.query)
        /\ ~pipe.validation.out.valid =>
              pipe.validation.out.error \in {ErrNoLimit, ErrTooManyValues}
        /\ pipe.validation.out.valid => pipe.validation.out.error = Undefined
        /\ pipe.query = parse(pipe.text)

\* C6 witness: a query whose filter value is a list of exactly 100 elements
\* has been validated and accepted.
C6_Witness ==
    /\ pipe.stage = "parsed"
    /\ pipe.validation.done
    /\ pipe.validation.out.valid
    /\ \E i \in 1..Len(pipe.query.filters) :
          /\ pipe.query.filters[i].value.isList
          /\ Len(pipe.query.filters[i].value.items) = MaxFilterValues

\* Call c is in flight: issued, fetching from the record source.
InFlight(c) == calls[c].pc \in {"awaitSQL", "hydrating"}

\* The cache holds an entry for q written less than cacheTimeout ago, with
\* no clearCache since.
FreshEntry(q) ==
    /\ q \in DOMAIN lastWrite
    /\ ~lastWrite[q].cleared
    /\ now - lastWrite[q].at < cacheTimeout

\* C7: when executeQuery(q) has completed successfully and executeQuery(q)
\* is issued again with caching on less than cacheTimeout later (no
\* clearCache in between), the second call returns at once the very result
\* of the first, built by one fetch, and the record source is not called.
C7_CacheHit ==
    [][\A c \in CallIds : \A q \in DOMAIN lastWrite :
          (/\ Issued(c)
           /\ calls'[c].queryString = q
           /\ calls'[c].useCache
           /\ FreshEntry(q))
              => /\ calls'[c].pc = "done"
                 /\ calls'[c].outcome = "value"
                 /\ calls'[c].fromCache
                 /\ calls'[c].result = calls[lastWrite[q].by].result
                 /\ calls'[c].fetches = 0
                 /\ calls[lastWrite[q].by].fetches = 1
                 /\ fetchCount' = fetchCount]_vars

\* C7 witness: two finished calls on the same string, the second served
\* from the cache with the first's non-empty result, one fetch in all.
C7_Witness ==
    /\ calls[1].pc = "done" /\ ~calls[1].fromCache
    /\ calls[2].pc = "done" /\ calls[2].fromCache
    /\ calls[2].queryString = calls[1].queryString
    /\ calls[2].result = calls[1].result
    /\ Len(calls[1].result) > 0
    /\ fetchCount = 1

\* C8: a call is served from the cache only if caching is on, an entry for
\* exactly its query string exists, the entry was written less than
\* cacheTimeout ago and clearCache has not run since; every other call
\* invokes the record source, and when it succeeds the entry for its string
\* is overwritten with the new result and the time of the write.
C8_CacheMissConditions ==
    [][\A c \in CallIds :
          /\ Issued(c) /\ calls'[c].fromCache =>
                calls'[c].useCache /\ FreshEntry(calls'[c].queryString)
          /\ Issued(c) /\ ~calls'[c].fromCache =>
                calls'[c].pc = "awaitSQL" /\ fetchCount' = fetchCount + 1
          /\ Finished(c) =>
                /\ calls[c].queryString \in DOMAIN queryCache'
                /\ queryCache'[calls[c].queryString] =
                      [result |-> calls'[c].result, timestamp |-> now]]_vars

\* C8 witness: with cacheTimeout 1, two calls on the same string both went
\* to the record source, the second with caching on, and the entry holds
\* the second call's result and write time.
C8_Witness ==
    /\ cacheTimeout = 1
    /\ calls[1].pc = "done" /\ ~calls[1].fromCache
    /\ calls[2].pc = "done" /\ ~calls[2].fromCache /\ calls[2].useCache
    /\ calls[2].queryString = calls[1].queryString
    /\ fetchCount = 2
    /\ calls[2].queryString \in DOMAIN queryCache
    /\ queryCache[calls[2].queryString] = [result |-> calls[2].result, timestamp |-> now]
    /\ now > 0

\* C9: calls are not de-duplicated in flight: a call issued while another
\* call for the same string is still in flight, the cache holding no fresh
\* entry for the string, invokes the record source itself.
C9_NoSingleFlight ==
    [][\A c \in CallIds : \A b \in CallIds :
          (/\ Issued(c)
           /\ InFlight(b)
           /\ calls[b].queryString = calls'[c].queryString
           /\ ~FreshEntry(calls'[c].queryString))
              => /\ calls'[c].pc = "awaitSQL"
                 /\ calls'[c].fetches = 1
                 /\ fetchCount' = fetchCount + 1]_vars

\* C9 witness: two calls with caching on, for the same string, are both
\* awaiting querySQL, the cache is empty and the fetch count is 2.
C9_Witness ==
    /\ calls[1].pc = "awaitSQL" /\ calls[1].useCache
    /\ calls[2].pc = "awaitSQL" /\ calls[2].useCache
    /\ calls[1].queryString = calls[2].queryString
    /\ queryCache = <<>>
    /\ fetchCount = 2

\* C10 as stated: while fn has not settled, executeWithTimeout fails exactly
\* when maxExecutionTime has elapsed since the call: a failure comes at
\* that instant and the call is not pending at any later instant.
C10_FailsExactlyAtDeadline ==
    \A c \in CallIds :
        calls[c].viaPlugin /\ calls[c].pc = "awaitSQL" =>
            /\ calls[c].outcome = "timeout" =>
                  calls[c].settledAt - calls[c].startedAt = calls[c].delay
            /\ calls[c].outcome = "pending" =>
                  now - calls[c].startedAt <= calls[c].delay

\* C10 amended: while fn has not settled, executeWithTimeout never fails
\* before maxExecutionTime (as configured at the call) has elapsed; from
\* then on the timer is due and the call fails when the timer callback
\* runs, which may be later than the deadline.
C10_NeverFailsEarly ==
    \A c \in CallIds :
        calls[c].viaPlugin /\ calls[c].pc = "awaitSQL" =>
            /\ calls[c].outcome \in {"pending", "timeout"}
            /\ calls[c].outcome = "timeout" =>
                  calls[c].settledAt - calls[c].startedAt >= calls[c].delay
            /\ calls[c].outcome = "pending" =>
                  /\ calls[c].timer = "armed"
                  /\ now - calls[c].startedAt >= calls[c].delay =>
                        TimerDue(now, calls[c].startedAt, calls[c].delay)

\* C10 witness: a call whose fn has not settled failed by timeout exactly
\* maxExecutionTime after it was made.
C10_Witness ==
    \E c \in CallIds :
        /\ calls[c].viaPlugin /\ calls[c].pc = "awaitSQL"
        /\ calls[c].outcome = "timeout"
        /\ calls[c].delay >= 1
        /\ calls[c].settledAt - calls[c].startedAt = calls[c].delay

\* C11: a timeout does not stop the background work: the step in which the
\* caller's outcome becomes the timeout failure leaves the in-flight
\* executeQuery where it was; the caller's outcome stays the timeout
\* failure; and when the timed-out executeQuery later finishes it writes its
\* result into the cache.
C11_TimeoutDoesNotCancel ==
    [][\A c \in CallIds :
          /\ calls[c].outcome = "pending" /\ calls'[c].outcome = "timeout" =>
                /\ InFlight(c)
                /\ calls'[c].pc = calls[c].pc
                /\ calls'[c].rows = calls[c].rows
                /\ calls'[c].next = calls[c].next
                /\ calls'[c].tasks = calls[c].tasks
          /\ calls[c].outcome = "timeout" => calls'[c].outcome = "timeout"
          /\ calls[c].outcome = "timeout" /\ Finished(c) =>
                /\ calls[c].queryString \in DOMAIN queryCache'
                /\ queryCache'[calls[c].queryString] =
                      [result |-> calls'[c].result, timestamp |-> now]]_vars

\* C11 witness: the first call timed out, its executeQuery finished
\* afterwards with a non-empty result, and the second call, for the same
\* string, was served that result from the cache without a fetch.
C11_Witness ==
    /\ calls[1].outcome = "timeout" /\ calls[1].pc = "done"
    /\ calls[1].settledAt = calls[1].startedAt + calls[1].delay
    /\ Len(calls[1].result) > 0
    /\ calls[2].pc = "done" /\ calls[2].fromCache /\ calls[2].outcome = "value"
    /\ calls[2].queryString = calls[1].queryString
    /\ calls[2].result = calls[1].result
    /\ fetchCount = 1

\* The elements of a sequence.
Range(seq) == {seq[i] : i \in 1..Len(seq)}

\* The block ids of a sequence of tasks.
BlockIds(tasks) == [i \in 1..Len(tasks) |-> tasks[i].source_block_id]

\* C12: a hydration failure is isolated per record: executeQuery never
\* fails in hydration; while it hydrates, every candidate before the
\* current one was attempted once and was either kept or skipped; when it
\* has finished, every candidate was attempted, and the result is exactly
\* the records of the candidates that were not skipped (hydration failed,
\* or the attributes lack a task id or description), in the candidates'
\* order.
C12_HydrationFailureIsolated ==
    \A c \in CallIds :
        /\ calls[c].pc = "failed" => calls[c].rows = <<>> /\ calls[c].skipped = <<>>
        /\ calls[c].pc = "hydrating" =>
              Len(calls[c].tasks) + Len(calls[c].skipped) = calls[c].next - 1
        /\ calls[c].pc = "done" /\ ~calls[c].fromCache =>
              /\ calls[c].outcome \in {"value", "timeout"}
              /\ calls[c].next = Len(calls[c].rows)
              /\ Len(calls[c].result) + Len(calls[c].skipped) = Len(calls[c].rows)
              /\ BlockIds(calls[c].result) =
                    SelectSeq(calls[c].rows, LAMBDA id : id \notin Range(calls[c].skipped))
              /\ \A i \in 1..Len(calls[c].result) :
                    \E v \in 1..storeVer :
                        calls[c].result[i] = getTask(calls[c].result[i].source_block_id, v)

\* C12 witness: of three candidates the first and the third yielded no
\* task; executeQuery succeeded with the record of the second alone.
C12_Witness ==
    \E c \in CallIds :
        /\ calls[c].pc = "done" /\ calls[c].outcome = "value"
        /\ calls[c].rows = <<"b1", "b2", "b3">>
        /\ calls[c].skipped = <<"b1", "b3">>
        /\ BlockIds(calls[c].result) = <<"b2">>

\* C13: a failure of the record source is propagated without retry and
\* without cache side effects: the step in which querySQL rejects makes the
\* call fail with the error and leaves the cache, older entries included,
\* and the fetch count as they were; a call invokes querySQL at most once
\* and a failed call does nothing more; and a call issued for the string of
\* a failed call invokes querySQL again unless the cache holds a fresh entry
\* for it.
C13_SourceFailurePropagated ==
    [][\A c \in CallIds :
          /\ calls'[c].fetches <= 1
          /\ calls[c].pc = "awaitSQL" /\ calls'[c].pc = "failed" =>
                /\ calls'[c].outcome = "error"
                /\ calls'[c].result = <<>>
                /\ calls'[c].fetches = 1
                /\ fetchCount' = fetchCount
                /\ queryCache' = queryCache
                /\ lastWrite' = lastWrite
          /\ calls[c].pc = "failed" => calls'[c] = calls[c]
          /\ \A b \in CallIds :
                (/\ calls[b].pc = "failed"
                 /\ Issued(c)
                 /\ calls'[c].queryString = calls[b].queryString
                 /\ ~(calls'[c].useCache /\ FreshEntry(calls[b].queryString)))
                    => /\ calls'[c].pc = "awaitSQL"
                       /\ calls'[c].fetches = 1
                       /\ fetchCount' = fetchCount + 1]_vars

\* C13 witness: the first call failed in querySQL; the second call, for the
\* same string with caching on, went to the record source again and has
\* finished; the cache holds the second call's result only.
C13_Witness ==
    /\ calls[1].pc = "failed" /\ calls[1].outcome = "error" /\ calls[1].fetches = 1
    /\ calls[2].pc = "done" /\ ~calls[2].fromCache /\ calls[2].useCache
    /\ calls[2].queryString = calls[1].queryString
    /\ fetchCount = 2
    /\ lastWrite[calls[1].queryString].by = 2

\* The filter a clause stands for, with its logic marker.
FilterOf(clause, logic) ==
    [field |-> clause.field, operator |-> clause.operator, value |-> clause.value,
     logic |-> logic]

\* C14: the single line where A and B or C parses to exactly the three
\* filters A, B, C in that order, with logic markers none, AND and OR.
C14_InlineConnectives ==
    \A i, j, k \in 1..Len(Clauses) :
        (pipe.stage = "returned" /\ pipe.text = WhereAndOr(Clauses[i], Clauses[j], Clauses[k]))
            => pipe.query.filters = <<FilterOf(Clauses[i], Undefined),
                                      FilterOf(Clauses[j], LogicAnd),
                                      FilterOf(Clauses[k], LogicOr)>>

\* C15: a continuation line and B (or B) after a line where A adds one
\* filter for B marked AND (OR): the two lines parse to the filters A and
\* B; the lines where status != done, and due <= today yield two filters,
\* the second with field due, and the lines where status = TODO, or
\* status = DOING yield two filters, the second marked OR.
C15_ContinuationLines ==
    pipe.stage = "returned" =>
        /\ \A i, j \in 1..Len(Clauses) :
              /\ pipe.text = Continued(Clauses[i], "and", Clauses[j]) =>
                    pipe.query.filters = <<FilterOf(Clauses[i], Undefined),
                                              FilterOf(Clauses[j], LogicAnd)>>
              /\ pipe.text = Continued(Clauses[i], "or", Clauses[j]) =>
                    pipe.query.filters = <<FilterOf(Clauses[i], Undefined),
                                              FilterOf(Clauses[j], LogicOr)>>
        /\ pipe.text = MultipleFiltersQuery =>
              /\ Len(pipe.query.filters) = 2
              /\ pipe.query.filters[2].field = "due"
              /\ pipe.query.filters[2].logic = LogicAnd
        /\ pipe.text = OrLogicQuery =>
              /\ Len(pipe.query.filters) = 2
              /\ pipe.query.filters[2].logic = LogicOr

\* The one filter: field f, operator op, value v, no logic marker.
OneFilter(f, op, v) == <<[field |-> f, operator |-> op, value |-> v.value, logic |-> Undefined]>>

\* C16: multi-word operators take precedence: where f not includes v parses
\* to one filter with operator NOT_CONTAINS and field exactly f, and where
\* f not in v to operator NOT_IN and field f.
C16_MultiWordOperators ==
    \A i \in 1..Len(Fields), j \in 1..Len(Values), op \in {NOT_CONTAINS, NOT_IN} :
        (pipe.stage = "returned" /\ pipe.text = WhereClause(Fields[i], op, Values[j]))
            => pipe.query.filters = OneFilter(Fields[i], op, Values[j])

\* C17: two-character comparison operators: where f != v, where f <= v and
\* where f >= v parse to one filter whose operator is NOT_EQUALS,
\* LESS_THAN_OR_EQUAL and GREATER_THAN_OR_EQUAL, whose field is exactly f
\* and whose value is v.
C17_TwoCharacterOperators ==
    \A i \in 1..Len(Fields), j \in 1..Len(Values),
       op \in {NOT_EQUALS, LESS_THAN_OR_EQUAL, GREATER_THAN_OR_EQUAL} :
        (pipe.stage = "returned" /\ pipe.text = WhereClause(Fields[i], op, Values[j]))
            => pipe.query.filters = OneFilter(Fields[i], op, Values[j])

\* C18: tolerant parsing: a line that yields no filter, sort or limit has
\* no effect on the result: the text with the line put in anywhere parses
\* to the same filters (logic markers included), sorts and limit as the
\* text without it.
C18_MalformedLineHasNoEffect ==
    \A p \in 0..Len(BaseLines), m \in MalformedLines :
        (pipe.stage = "returned" /\ pipe.text = JoinWith(InsertLine(BaseLines, p, m), "\n"))
            => pipe.query = parse(JoinWith(BaseLines, "\n"))

\* C19: a sort by line with two comma-separated keys yields one sort
\* condition per key, in textual order, each with its own direction (asc
\* when omitted); the sort conditions of two sort by lines accumulate in
\* textual order.
C19_SortClauseList ==
    \A i, j \in 1..Len(SortKeys) :
        pipe.stage = "returned" =>
            /\ pipe.text = SortList(SortKeys[i], SortKeys[j]) =>
                  pipe.query.sorts = <<SortKeys[i].sort, SortKeys[j].sort>>
            /\ pipe.text = SortLines(SortKeys[i], SortKeys[j]) =>
                  pipe.query.sorts = <<SortKeys[i].sort, SortKeys[j].sort>>

\* The value of a task's sort key: the field of the task that the sort
\* field names.
SortValue(task, field) ==
    CASE normalizeFieldName(field) = "due_date" -> task.due_date
      [] normalizeFieldName(field) = "status" -> task.status
      [] normalizeFieldName(field) = "description" -> task.description
      [] OTHER -> Undefined

\* Key a sorts strictly before key b; a missing key is minimal.
KeyLess(a, b) == a # b /\ (a = Undefined \/ (b # Undefined /\ StrLess(a, b)))

\* C20: result ordering: the records executeQuery returned for a query
\* with the one sort condition F asc are in non-decreasing order of their F
\* value (non-increasing for desc), records lacking F first.
C20_ResultOrdering ==
    \A c \in CallIds :
        (calls[c].pc = "done" /\ Len(ParsedOf(calls[c].queryString).sorts) = 1) =>
            \A i, j \in 1..Len(calls[c].result) :
                i < j =>
                    IF ParsedOf(calls[c].queryString).sorts[1].direction = ASC
                    THEN ~KeyLess(SortValue(calls[c].result[j],
                                            ParsedOf(calls[c].queryString).sorts[1].field),
                                  SortValue(calls[c].result[i],
                                            ParsedOf(calls[c].queryString).sorts[1].field))
                    ELSE ~KeyLess(SortValue(calls[c].result[i],
                                            ParsedOf(calls[c].queryString).sorts[1].field),
                                  SortValue(calls[c].result[j],
                                            ParsedOf(calls[c].queryString).sorts[1].field))

\* C21: with enableCache false in the optimization settings, no query
\* executed through the plugin is served from the cache: every call issued
\* while the setting is off invokes the record source.
C21_DisabledCacheNeverServes ==
    [][\A c \in CallIds :
          (Issued(c) /\ calls'[c].viaPlugin /\ ~enableCache) =>
              (~calls'[c].fromCache /\ fetchCount' = fetchCount + 1)]_vars

\* The canonical name the alias table gives a field, any other field
\* unchanged.
ClaimedAlias(f) ==
    CASE ToLowerCase(f) = "due" -> "due_date"
      [] ToLowerCase(f) = "scheduled" -> "scheduled_date"
      [] ToLowerCase(f) = "start" -> "start_date"
      [] ToLowerCase(f) = "done" -> "done_date"
      [] ToLowerCase(f) = "cancelled" -> "cancelled_date"
      [] ToLowerCase(f) = "tag" -> "tags"
      [] ToLowerCase(f) = "depends" -> "depends_on"
      [] OTHER -> f

\* C22: alias normalization: normalizeFieldName maps the seven aliases to
\* their canonical names, returns every other field unchanged, and is
\* idempotent.
C22_AliasNormalization ==
    (pipe.stage = "parsed" /\ pipe.executed.done) =>
        \A i \in 1..Len(pipe.query.filters) :
            /\ pipe.executed.fields[i] = ClaimedAlias(pipe.query.filters[i].field)
            /\ normalizeFieldName(pipe.executed.fields[i]) = pipe.executed.fields[i]

\* The strict left-to-right chain (((c1 op2 c2) op3 c3) ... opn cn) over
\* the first n items of a WHERE list.
RECURSIVE LeftToRight(_, _, _)
LeftToRight(items, n, ial) ==
    IF n = 1 THEN TermValue(items[1], Like(ial, LiteralValue(items[1].pattern)))
    ELSE IF items[n].connective = "OR"
    THEN LeftToRight(items, n - 1, ial) \/ TermValue(items[n], Like(ial, LiteralValue(items[n].pattern)))
    ELSE LeftToRight(items, n - 1, ial) /\ TermValue(items[n], Like(ial, LiteralValue(items[n].pattern)))

\* C23: left-to-right composition: the rows the store returns for the
\* compiled predicate are the blocks that satisfy the strict left-to-right
\* chain of the task-block clause and the filters' clauses.
C23_LeftToRightComposition ==
    (pipe.stage = "parsed" /\ pipe.executed.done /\ ~pipe.executed.threw
        /\ ~pipe.executed.stmt.hasLimit) =>
        Range(pipe.executed.rows) =
            {StoreVersions[storeVer][b].id : b \in
                {k \in 1..Len(StoreVersions[storeVer]) :
                    LeftToRight(pipe.executed.stmt.where, Len(pipe.executed.stmt.where),
                                Ial(StoreVersions[storeVer][k]))}}

\* C24: a limit line never yields a negative limit: the limit of a parsed
\* query is absent or a non-negative integer.
C24_LimitNeverNegative ==
    pipe.stage = "returned" => (~pipe.query.hasLimit \/ pipe.query.limit >= 0)

\* Fields that are no attribute of a task record.
UnrecognizedFields == {"foo", "constructor", "__proto__"}

\* C25: unrecognized-field fallback: for a filter on a field that is no
\* record attribute, compileToSQL does not fail and the filter's clause is
\* the attribute-exists predicate, whatever the operator and the value.
C25_UnrecognizedFieldFallback ==
    (pipe.stage = "parsed" /\ pipe.executed.done) =>
        \A i \in 1..Len(pipe.query.filters) :
            pipe.query.filters[i].field \in UnrecognizedFields =>
                /\ ~pipe.executed.threw
                /\ ~pipe.executed.stmt.where[i + 1].negated
                /\ pipe.executed.stmt.where[i + 1].pattern =
                       "%custom-task-" \o pipe.query.filters[i].field \o "%"

\* C26: every filter value embedded in the compiled predicate is escaped:
\* whatever the value, the string literal it is placed in is not closed
\* early.
C26_ValuesEscaped ==
    (pipe.stage = "parsed" /\ pipe.executed.done /\ ~pipe.executed.threw) =>
        \A k \in 1..Len(pipe.executed.stmt.where) :
            ~ClosesEarly(pipe.executed.stmt.where[k].pattern)

\* The filter has the field, operator and value of the clause.
IsClause(filter, clause) ==
    /\ clause.ok
    /\ filter.field = clause.field
    /\ filter.operator = clause.operator
    /\ filter.value = clause.value

\* C27: default conditions reach every query: when defaultConditions is a
\* well-formed clause, the query handleQueryExecute has parsed holds that
\* clause as one of its filters, whether or not the user's query has a
\* where line.
C27_DefaultConditionsReachQuery ==
    (pipe.stage = "returned" /\ pipe.conditions # "") =>
        \E i \in 1..Len(pipe.query.filters) :
            IsClause(pipe.query.filters[i], parseFilter(pipe.conditions))

\* The status the result holds for the task of this identifier.
StatusIn(result, taskId) ==
    {result[i].status : i \in {k \in 1..Len(result) : result[k].task_id = taskId}}

\* C28: last write wins: each execution that completes successfully
\* overwrites the entry of its query string with its own result and the
\* time of its completion, whatever the entry held and whenever the other
\* executions of the string queried the store; and nothing but a completing
\* execution of the string changes an entry that stays in the cache.
C28_LastWriteWins ==
    [][/\ \A c \in CallIds :
            Finished(c) =>
                /\ calls[c].queryString \in DOMAIN queryCache'
                /\ queryCache'[calls[c].queryString] =
                       [result |-> calls'[c].result, timestamp |-> now]
       /\ \A q \in DOMAIN queryCache' :
            (q \notin DOMAIN queryCache \/ queryCache'[q] # queryCache[q]) =>
                \E c \in CallIds : Finished(c) /\ calls[c].queryString = q]_vars

\* Two overlapping executions of one string have completed; the first
\* hydrated the second task before it was completed in the store and
\* completed last, the second saw the task completed: the entry holds the
\* first execution's older result.
C28_Witness ==
    /\ calls[1].pc = "done" /\ calls[2].pc = "done"
    /\ ~calls[1].fromCache /\ ~calls[2].fromCache
    /\ calls[1].queryString = calls[2].queryString
    /\ StatusIn(calls[1].result, "t2") = {"TODO"}
    /\ StatusIn(calls[2].result, "t2") = {"DONE"}
    /\ lastWrite[calls[1].queryString].by = 1
    /\ calls[1].queryString \in DOMAIN queryCache
    /\ queryCache[calls[1].queryString].result = calls[1].result

\* C29: dashboard freshness after a write: the refresh that follows the
\* write of handleTaskStatusToggle delivers the tasks as they are in the
\* store after the write: the completed task is not delivered as TODO.
C29_DashboardFreshAfterWrite ==
    \A c \in CallIds :
        (calls[c].afterWrite /\ calls[c].pc = "done") =>
            "TODO" \notin StatusIn(calls[c].result, "t2")

\* C30: executeWithTimeout settles exactly once, with the outcome of the
\* event that happens first: an outcome, once delivered, never changes; the
\* caller gets the value only in the step in which executeQuery returns, the
\* error only in the step in which it rejects, and the timeout error only in
\* the step in which the timer fires.
C30_SettlesOnceWithFirst ==
    [][\A c \in CallIds :
          /\ calls[c].outcome # "pending" =>
                /\ calls'[c].outcome = calls[c].outcome
                /\ calls'[c].settledAt = calls[c].settledAt
          /\ (calls[c].outcome = "pending" /\ calls'[c].outcome = "value") =>
                (calls[c].pc # "done" /\ calls'[c].pc = "done")
          /\ (calls[c].outcome = "pending" /\ calls'[c].outcome = "error") =>
                (calls[c].pc # "failed" /\ calls'[c].pc = "failed")
          /\ (calls[c].outcome = "pending" /\ calls'[c].outcome = "timeout") =>
                (calls[c].timer = "armed" /\ calls'[c].timer = "fired")
          /\ (calls[c].outcome = "pending" /\ calls[c].pc \in {"idle", "awaitSQL", "hydrating"}
                /\ calls'[c].pc \in {"done", "failed"}) =>
                calls'[c].outcome \in {"value", "error"}
          /\ (calls[c].outcome = "pending" /\ calls[c].timer = "armed"
                /\ calls'[c].timer = "fired") =>
                calls'[c].outcome = "timeout"]_vars

\* One call got its value and its timer fired afterwards; another timed
\* out and its query completed afterwards.
C30_Witness ==
    \E c, d \in CallIds :
        /\ calls[c].outcome = "value" /\ calls[c].timer = "fired"
        /\ calls[d].outcome = "timeout" /\ calls[d].pc = "done"

=============================================================================
